---- MODULE Spec2Model ----
(***************************************************************************)
(* A model of the constraint-driven hkl -> angles solver of diffcalc       *)
(* (diffcalc/hkl/you/calcyou.py) and of its solution-space explorer.       *)
(*                                                                         *)
(* Numbers.  Angles are integers in units of PI/360 (half a degree).  The  *)
(* solver's trigonometry is evaluated exactly on the 45-degree grid: an    *)
(* angle within SMALL of a grid point k*45deg has the sine and cosine of   *)
(* that grid point, held as a pair <<a, b>> standing for a + b*sqrt(2).    *)
(* Angles off the grid by less than SMALL (the "offsets") stand for the    *)
(* floating-point values that the code's tolerance tests (is_small, ne)    *)
(* treat as equal to the grid value; the integer comparisons of the code   *)
(* (cuts, limits, is_small) see the offsets, the trigonometry does not.    *)
(***************************************************************************)
EXTENDS Integers, Sequences, FiniteSets, TLC

VARIABLES pc, constraints, hardware, args, frame, ret

vars == <<pc, constraints, hardware, args, frame, ret>>

\* ---------------------------------------------------------------- numbers

\* math.pi, in angle units
PI == 360
\* calcyou.SMALL, in angle units: the largest offset is below it
SMALL == 6
\* offsets from the grid are the even numbers in -2*MaxOff..2*MaxOff
MaxOff == 1

None == "None"

Abs(x) == IF x < 0 THEN -x ELSE x

Offsets == { 2 * o : o \in -MaxOff..MaxOff }

\* the grid point k*45deg
Grid(k) == k * (PI \div 4)

\* calcyou.TODEG: an angle in degrees
TODEG(x) == (x * 180) \div PI

is_small(x) == Abs(x) < SMALL

ne(a, b) == is_small(a - b)

cut_at_minus_pi(value) ==
    IF value < (-PI - SMALL) THEN value + 2 * PI
    ELSE IF value >= PI + SMALL THEN value - 2 * PI
    ELSE value

\* ------------------------------------------------- candidate enumeration

\* The mutant of the generator that forgets the test for -pi/2.
generate_without_minus_half_pi(value, constrained) ==
    IF constrained THEN <<value>>
    ELSE IF is_small(value) THEN <<0, PI>>
    ELSE IF is_small(value - PI \div 2) THEN <<PI \div 2, -(PI \div 2)>>
    ELSE <<value, -value, PI + value, PI - value>>

\* The mutant of the generator that expands a constrained value too.
generate_expanding_constrained(value, constrained) ==
    IF is_small(value) THEN <<0, PI>>
    ELSE IF is_small(value - PI \div 2) \/ is_small(value + PI \div 2)
         THEN <<PI \div 2, -(PI \div 2)>>
    ELSE <<value, -value, PI + value, PI - value>>

\* The values yielded by the generator, in the order it yields them.
generate_transformed_values(value, constrained) ==
    IF constrained THEN <<value>>
    ELSE IF is_small(value) THEN <<0, PI>>
    ELSE IF is_small(value - PI \div 2) \/ is_small(value + PI \div 2)
         THEN <<PI \div 2, -(PI \div 2)>>
    ELSE <<value, -value, PI + value, PI - value>>

Range(s) == { s[i] : i \in 1..Len(s) }

\* ------------------------------------------------------------- no hardware

NoConstraints == [reference |-> <<>>, detector |-> <<>>, naz |-> <<>>,
                  sample |-> <<>>]

NoHardware == None

\* --------------------------------------- _generate_transformed_values alone

\* offsets wide enough to hold values just outside the tolerance as well
GenValues == { Grid(k) + 2 * o : k \in -4..4, o \in -(MaxOff + 2)..(MaxOff + 2) }

InitGen ==
    /\ pc = "call"
    /\ args \in [value : GenValues, constrained : BOOLEAN]
    /\ ret = None
    /\ constraints = NoConstraints
    /\ hardware = NoHardware
    /\ frame = None

CallGenerate ==
    /\ pc = "call"
    /\ ret' = generate_transformed_values(args.value, args.constrained)
    /\ pc' = "return"
    /\ UNCHANGED <<args, constraints, hardware, frame>>

NextGen == CallGenerate

SpecGen == InitGen /\ [][NextGen]_vars

\* C8: an unconstrained value v yields exactly {v, -v, pi+v, pi-v} in the
\* generic case, exactly {0, pi} when v is near zero and exactly
\* {pi/2, -pi/2} when v is near +pi/2 or -pi/2; a constrained value yields
\* only itself; so there are 1, 2 or 4 candidates and never more than 4.
C8_TransformedValues ==
    pc = "return" =>
        LET v == args.value
            nearZero == Abs(v) < SMALL
            nearHalfPi == Abs(Abs(v) - PI \div 2) < SMALL
        IN  /\ args.constrained => Range(ret) = {v}
            /\ (~args.constrained /\ nearZero) => Range(ret) = {0, PI}
            /\ (~args.constrained /\ nearHalfPi)
                   => Range(ret) = {PI \div 2, -(PI \div 2)}
            /\ (~args.constrained /\ ~nearZero /\ ~nearHalfPi)
                   => Range(ret) = {v, -v, PI + v, PI - v}
            /\ Len(ret) \in {1, 2, 4}
            /\ Cardinality(Range(ret)) <= 4

\* C8 witnesses: each of the four cases has been generated
C8_Witness ==
    /\ pc = "return"
    /\ ~args.constrained
    /\ args.value = Grid(1) + 2
    /\ Len(ret) = 4

\* -------------------------------------------------- degenerate positions

\* YouPosition(mu, delta, nu, eta, chi, phi)
YouPosition(mu, delta, nu, eta, chi, phi) ==
    [mu |-> mu, delta |-> delta, nu |-> nu, eta |-> eta, chi |-> chi,
     phi |-> phi]

\* A constraint group is a dictionary name -> value, here a function on the
\* set of constrained names; it is truthy when it is not empty.
Truthy(dict) == DOMAIN dict # {}

\* The mutant of the clean-up that redistributes whatever the constraints.
tidy_ignoring_constraints(pos, cons) ==
    IF is_small(pos.nu) /\ is_small(pos.mu) /\ is_small(pos.chi)
    THEN [pos EXCEPT !.eta = pos.delta \div 2,
                     !.phi = pos.phi - (pos.delta \div 2 - pos.eta)]
    ELSE IF is_small(pos.delta) /\ is_small(pos.eta)
            /\ is_small(pos.chi - PI \div 2)
    THEN [pos EXCEPT !.mu = pos.nu \div 2,
                     !.phi = pos.phi + (pos.nu \div 2 - pos.mu)]
    ELSE pos

\* The mutant of the clean-up whose second case shifts phi the way the
\* first case does (subtracting).
tidy_same_sign(pos, cons) ==
    LET detector_like_constraint == Truthy(cons.detector) \/ Truthy(cons.naz)
    IN  IF is_small(pos.nu) /\ detector_like_constraint
           /\ is_small(pos.mu) /\ "mu" \in DOMAIN cons.sample
        THEN IF is_small(pos.chi)
             THEN [pos EXCEPT !.eta = pos.delta \div 2,
                              !.phi = pos.phi - (pos.delta \div 2 - pos.eta)]
             ELSE pos
        ELSE IF is_small(pos.delta) /\ detector_like_constraint
                /\ is_small(pos.eta) /\ "eta" \in DOMAIN cons.sample
        THEN IF is_small(pos.chi - PI \div 2)
             THEN [pos EXCEPT !.mu = pos.nu \div 2,
                              !.phi = pos.phi - (pos.nu \div 2 - pos.mu)]
             ELSE pos
        ELSE pos

\* The position returned by _tidy_degenerate_solutions(pos, constraints).
\* The values halved here are even, so that the halves are exact.
tidy_degenerate_solutions(pos, cons) ==
    LET detector_like_constraint == Truthy(cons.detector) \/ Truthy(cons.naz)
        nu_constrained_to_0 == is_small(pos.nu) /\ detector_like_constraint
        mu_constrained_to_0 == is_small(pos.mu) /\ "mu" \in DOMAIN cons.sample
        delta_constrained_to_0 == is_small(pos.delta) /\ detector_like_constraint
        eta_constrained_to_0 == is_small(pos.eta) /\ "eta" \in DOMAIN cons.sample
    IN  IF nu_constrained_to_0 /\ mu_constrained_to_0
        THEN \* constrained to vertical 4-circle like mode
             IF is_small(pos.chi)
             THEN LET desired_eta == pos.delta \div 2
                      eta_diff == desired_eta - pos.eta
                  IN  [pos EXCEPT !.eta = pos.eta + eta_diff,
                                  !.phi = pos.phi - eta_diff]
             ELSE pos
        ELSE IF delta_constrained_to_0 /\ eta_constrained_to_0
        THEN \* constrained to horizontal 4-circle like mode
             IF is_small(pos.chi - PI \div 2)
             THEN LET desired_mu == pos.nu \div 2
                      mu_diff == desired_mu - pos.mu
                  IN  [pos EXCEPT !.mu = pos.mu + mu_diff,
                                  !.phi = pos.phi + mu_diff]
             ELSE pos
        ELSE pos

\* ------------------------------------- _tidy_degenerate_solutions alone

\* pos.inDegrees(): a new position holding the angles in degrees
inDegrees(pos) ==
    YouPosition(TODEG(pos.mu), TODEG(pos.delta), TODEG(pos.nu),
                TODEG(pos.eta), TODEG(pos.chi), TODEG(pos.phi))


\* values near zero, at the tolerance, and on the grid
NearZero == {0, 2 * MaxOff, SMALL, Grid(1)}

TidyPositions ==
    { YouPosition(mu, delta, nu, eta, chi, phi) :
        mu \in NearZero, delta \in NearZero, nu \in NearZero,
        eta \in NearZero,
        chi \in {0, 2 * MaxOff, Grid(2), Grid(2) + 2 * MaxOff, Grid(2) - SMALL},
        phi \in {0, Grid(1), PI, 2 - PI} }

DetectorGroups == { <<>>, [delta |-> 0], [nu |-> 0], [qaz |-> Grid(2)] }

TidyConstraints ==
    { [reference |-> [a_eq_b |-> None], detector |-> d, naz |-> n, sample |-> s] :
        d \in DetectorGroups,
        n \in { <<>>, [naz |-> Grid(2)] },
        s \in { [mu |-> 0], [eta |-> 0], [chi |-> Grid(2)],
                [mu |-> 0, eta |-> 0] } }

InitTidy ==
    /\ pc = "call"
    /\ args \in [pos : TidyPositions]
    /\ constraints \in { c \in TidyConstraints :
                           ~(Truthy(c.detector) /\ Truthy(c.naz)) }
    /\ ret = None
    /\ hardware = NoHardware
    /\ frame = [heap |-> [pos |-> args.pos, original |-> None],
                returned |-> None]

\* The call works on the caller's object `pos`: the assignments of lines
\* 106-107 and 118-119 write its attributes, `original` is a new object made
\* for the printed message, and line 125 returns `pos`.  args.pos keeps the
\* value the object had when the call was made.
CallTidy ==
    /\ pc = "call"
    /\ LET leave(tidied) ==
               /\ frame' = [heap |-> [pos |-> tidied,
                                      original |-> inDegrees(frame.heap.pos)],
                            returned |-> "pos"]
               /\ ret' = tidied
       IN  leave(tidy_degenerate_solutions(frame.heap.pos, constraints))
    /\ pc' = "return"
    /\ UNCHANGED <<args, constraints, hardware>>

NextTidy == CallTidy

SpecTidy == InitTidy /\ [][NextTidy]_vars

DetectorLike == Truthy(constraints.detector) \/ Truthy(constraints.naz)

\* the guard of the first degeneracy case, on the position passed in
Case1Guard ==
    /\ Abs(args.pos.nu) < SMALL /\ Abs(args.pos.mu) < SMALL
    /\ DetectorLike /\ "mu" \in DOMAIN constraints.sample

\* C9: with nu and mu near 0 under a detector-like or naz constraint, sample
\* mu fixed and chi near 0, eta becomes delta/2 and the same difference is
\* subtracted from phi, so eta+phi is kept and mu, delta, nu and chi are
\* unchanged; otherwise the first case changes nothing (eta is kept, and phi
\* moves only together with mu, as the second case moves it).
C9_Case1 ==
    pc = "return" =>
        LET p == args.pos
        IN  /\ (Case1Guard /\ Abs(p.chi) < SMALL)
                  => /\ 2 * ret.eta = p.delta
                     /\ ret.phi = p.phi - (ret.eta - p.eta)
                     /\ ret.eta + ret.phi = p.eta + p.phi
                     /\ ret.mu = p.mu /\ ret.delta = p.delta
                     /\ ret.nu = p.nu /\ ret.chi = p.chi
            /\ ~(Case1Guard /\ Abs(p.chi) < SMALL)
                  => /\ ret.eta = p.eta
                     /\ ret.phi - p.phi = ret.mu - p.mu

\* C9 witness: the first case has moved a non-zero amount from phi to eta
C9_Witness ==
    /\ pc = "return"
    /\ Case1Guard /\ Abs(args.pos.chi) < SMALL
    /\ ret.eta # args.pos.eta
    /\ args.pos.eta # 0

\* what the second case does to the position
Case2Effect ==
    LET p == args.pos
    IN  /\ 2 * ret.mu = p.nu
        /\ ret.phi = p.phi + (ret.mu - p.mu)
        /\ ret.phi - ret.mu = p.phi - p.mu
        /\ ret.delta = p.delta /\ ret.nu = p.nu
        /\ ret.eta = p.eta /\ ret.chi = p.chi

Case2Position ==
    /\ Abs(args.pos.delta) < SMALL /\ Abs(args.pos.eta) < SMALL
    /\ Abs(args.pos.chi - PI \div 2) < SMALL

\* C10 as stated: whenever the position has delta and eta near 0 with chi
\* near 90 degrees, mu becomes nu/2 and the same difference is added to phi.
C10_AsStated ==
    (pc = "return" /\ Case2Position) => Case2Effect

\* C10 amended: the second case applies when, in addition, a detector-like
\* or naz constraint is set, sample eta is fixed, and the guard of the first
\* case does not hold; then mu becomes nu/2, the same difference is added to
\* phi, phi-mu is kept and delta, nu, eta and chi are unchanged.
C10_Case2 ==
    (pc = "return" /\ Case2Position /\ DetectorLike
        /\ "eta" \in DOMAIN constraints.sample /\ ~Case1Guard)
    => Case2Effect

\* C10 witness: the second case has moved a non-zero amount onto phi and mu
C10_Witness ==
    /\ pc = "return"
    /\ Case2Position /\ DetectorLike
    /\ "eta" \in DOMAIN constraints.sample /\ ~Case1Guard
    /\ ret.mu # args.pos.mu
    /\ ret.phi # args.pos.phi

\* C11: the clean-up returns a copy: after the call the object passed in has
\* the attribute values it had before, and the object returned is not the
\* object passed in, in both degeneracy cases and without a degeneracy.
C11_ReturnsCopy ==
    pc = "return" =>
        /\ frame.heap.pos = args.pos
        /\ frame.returned # "pos"

\* ------------------------------------------------------- exact arithmetic

\* A number a + b*sqrt(2) is the pair <<a, b>>.
ZZero == <<0, 0>>
ZAdd(x, y) == <<x[1] + y[1], x[2] + y[2]>>
ZNeg(x) == <<-x[1], -x[2]>>
ZSub(x, y) == <<x[1] - y[1], x[2] - y[2]>>
ZMul(x, y) == <<x[1] * y[1] + 2 * x[2] * y[2], x[1] * y[2] + x[2] * y[1]>>
ZScale(n, x) == <<n * x[1], n * x[2]>>

\* the sign of a + b*sqrt(2): -1, 0 or 1
\* (where a and b differ in sign, x is multiplied by 1 + sqrt(2) > 0 until
\* they do not: that keeps the numbers small)
RECURSIVE ZSgn(_)
ZSgn(x) ==
    LET a == x[1]
        b == x[2]
    IN  IF a = 0 /\ b = 0 THEN 0
        ELSE IF a >= 0 /\ b >= 0 THEN 1
        ELSE IF a <= 0 /\ b <= 0 THEN -1
        ELSE ZSgn(<<a + 2 * b, a + b>>)

ZAbs(x) == IF ZSgn(x) < 0 THEN ZNeg(x) ELSE x

\* the index k of the grid point k*45deg nearest to an angle
Idx(a) == (a + PI \div 8) \div (PI \div 4)

\* the offset of an angle from its grid point
Off(a) == a - Grid(Idx(a))

\* sqrt(2)*cos and sqrt(2)*sin of an angle, taken at its grid point
Cos2(a) ==
    LET k == Idx(a) % 8
    IN  IF k = 0 THEN <<0, 1>>
        ELSE IF k = 1 \/ k = 7 THEN <<1, 0>>
        ELSE IF k = 2 \/ k = 6 THEN <<0, 0>>
        ELSE IF k = 3 \/ k = 5 THEN <<-1, 0>>
        ELSE <<0, -1>>

Sin2(a) == Cos2(a - PI \div 2)

\* ------------------------------------------------------ rotation matrices

\* x_rotation(th), y_rotation(th), z_rotation(th) applied to a vector; the
\* result is scaled by sqrt(2).
Root2 == <<0, 1>>

x_rotation(th, v) ==
    <<ZMul(Root2, v[1]),
      ZSub(ZMul(Cos2(th), v[2]), ZMul(Sin2(th), v[3])),
      ZAdd(ZMul(Sin2(th), v[2]), ZMul(Cos2(th), v[3]))>>

y_rotation(th, v) ==
    <<ZAdd(ZMul(Cos2(th), v[1]), ZMul(Sin2(th), v[3])),
      ZMul(Root2, v[2]),
      ZSub(ZMul(Cos2(th), v[3]), ZMul(Sin2(th), v[1]))>>

z_rotation(th, v) ==
    <<ZSub(ZMul(Cos2(th), v[1]), ZMul(Sin2(th), v[2])),
      ZAdd(ZMul(Sin2(th), v[1]), ZMul(Cos2(th), v[2])),
      ZMul(Root2, v[3])>>

\* the six matrices of createYouMatrices, applied to a vector
calcMU(mu, v) == x_rotation(mu, v)
calcDELTA(delta, v) == z_rotation(-delta, v)
calcNU(nu, v) == x_rotation(nu, v)
calcETA(eta, v) == z_rotation(-eta, v)
calcCHI(chi, v) == y_rotation(chi, v)
calcPHI(phi, v) == z_rotation(-phi, v)

\* the inverse of a rotation is the rotation by the opposite angle
calcMU_I(mu, v) == x_rotation(-mu, v)
calcETA_I(eta, v) == z_rotation(eta, v)
calcCHI_I(chi, v) == y_rotation(-chi, v)
calcPHI_I(phi, v) == z_rotation(phi, v)

\* ----------------------------------------------------- forward kinematics

\* (NU * DELTA - I) * (0, 1, 0)^T, scaled by 2: q_lab in units of
\* 2*pi/wavelength
q_lab_of(delta, nu) ==
    LET less_y(v) == <<v[1], ZSub(v[2], <<2, 0>>), v[3]>>
    IN  less_y(calcNU(nu, calcDELTA(delta, <<ZZero, <<1, 0>>, ZZero>>)))

\* MU * ETA * CHI * PHI * (0, 0, 1)^T, scaled by 4: n_lab for n_phi = (0, 0, 1)
n_lab_of(pos) ==
    calcMU(pos.mu, calcETA(pos.eta, calcCHI(pos.chi,
        calcPHI(pos.phi, <<ZZero, ZZero, <<1, 0>>>>))))

\* youAnglesToHkl(pos, wavelength, UB) for UB = (2*pi/wavelength) * I,
\* scaled by 8:  UB^-1 PHI^-1 CHI^-1 ETA^-1 MU^-1 q_lab
youAnglesToHkl(pos) ==
    calcPHI_I(pos.phi,
      calcCHI_I(pos.chi,
        calcETA_I(pos.eta,
          calcMU_I(pos.mu, q_lab_of(pos.delta, pos.nu)))))

\* sequence_ne(hkl, hkl_actual): the two values are exact, and agree within
\* the tolerance exactly when they are equal
sequence_ne(a_seq, b_seq) == a_seq = b_seq
\* --------------------------------------------------------- virtual angles

\* the value of an angle that is no grid angle: beyond every angle
NoAngle == 8 * PI

\* The sign of cos(a) for an angle in [-pi, pi]: cos(pi/2) and cos(-pi/2)
\* evaluate to 6e-17 > 0 in floating point.
SignCos(a) ==
    LET r == ((a + PI) % (2 * PI)) - PI
    IN  IF Abs(r) <= PI \div 2 THEN 1 ELSE -1

\* The sign of tan(a) where sin(a) is 0 on the grid: the sign of the offset,
\* and at the floating-point values 0, pi and -pi those of tan(0.) = 0,
\* tan(pi) = -1.2e-16 and tan(-pi) = 1.2e-16.
SignTanAtZero(a) ==
    IF Off(a) > 0 THEN 1
    ELSE IF Off(a) < 0 THEN -1
    ELSE IF Idx(a) % 8 = 0 THEN 0
    ELSE IF a > 0 THEN -1 ELSE 1

\* atan2(y, x) for a direction <<y, x>> that is not <<0, 0>> and has y # 0:
\* the grid angle in (-pi, pi) of that direction, if there is one
Atan2OnGrid(y, x) ==
    LET angle_of(hits) ==
            IF hits = {} THEN NoAngle ELSE Grid(CHOOSE k \in hits : TRUE)
    IN  angle_of({ k \in -3..3 :
                    /\ ZMul(y, Cos2(Grid(k))) = ZMul(x, Sin2(Grid(k)))
                    /\ ZSgn(ZAdd(ZMul(y, Sin2(Grid(k))),
                                 ZMul(x, Cos2(Grid(k))))) > 0 })

\* _theta_and_qaz_from_detector_angles(delta, nu).  theta is held as
\* 128*cos(2*theta) = 128*cos(delta)*cos(nu), which determines it in
\* [0, pi/2].
\* qaz = atan2(tan(delta), sin(nu)) has the direction of
\* (s*sin(delta), s*cos(delta)*sin(nu)) with s the sign of cos(delta); it is
\* NoAngle where it is no grid angle, and where tan(delta) and sin(nu) are
\* both 0 (theta is then 0 or pi/2 and qaz is numerical noise).
theta_and_qaz_from_detector_angles(delta, nu) ==
    LET atan2(y, x) ==
            IF y # ZZero THEN Atan2OnGrid(y, x)
            ELSE IF ZSgn(x) > 0 THEN 0
            ELSE IF ZSgn(x) = 0 THEN NoAngle
            ELSE IF SignTanAtZero(delta) >= 0 THEN PI ELSE -PI
    IN  [theta |-> ZScale(64, ZMul(Cos2(delta), Cos2(nu))),
         qaz |-> atan2(ZScale(SignCos(delta), ZMul(Root2, Sin2(delta))),
                       ZScale(SignCos(delta), ZMul(Cos2(delta), Sin2(nu))))]

\* ne(a, b) for angles of which either may be NoAngle
ne_angle(a, b) == a # NoAngle /\ b # NoAngle /\ ne(a, b)

\* _anglesToVirtualAngles(pos).  The angles that the filter compares are held
\* by the exact quantities that determine them:
\*   sin_alpha (times 4) = -n_lab[1],   n_lab = MU ETA CHI PHI (0, 0, 1)^T;
\*   T (times 8) = 2 sin(theta) cos(tau), where
\*       cos(tau) = cos(alpha) cos(theta) cos(naz - qaz) + sin(alpha) sin(theta)
\*       and cos(alpha) (sin naz, cos naz) = (n_lab[0], n_lab[2]),
\*       2 sin(theta) cos(theta) (sin qaz, cos qaz) =
\*           s (sin(delta), cos(delta) sin(nu)) = s (q_lab[0], q_lab[2]),
\*       2 sin(theta)^2 = 1 - cos(2 theta) = -q_lab[1];
\*   sin_beta (times 8) = 2 sin(theta) cos(tau) - sin(alpha);
\*   cos_psi = A / B with A (times 16) = cos(tau) sin(theta) - sin(alpha) and
\*       B = sin(tau) cos(theta) >= 0, B^2 = psi_B2 / (-256 q_lab[1]).
\* psi is undefined (NaN) where sin(tau) or cos(theta) is 0.
anglesToVirtualAngles(pos) ==
    LET virtual_angles(tq, T, sin_alpha, q_y) ==
            [theta |-> tq.theta, qaz |-> tq.qaz,
             sin_alpha |-> sin_alpha,
             sin_beta |-> ZSub(T, ZScale(2, sin_alpha)),
             psi_A |-> ZSub(T, ZScale(4, sin_alpha)),
             psi_B2 |-> ZMul(ZSub(ZScale(-64, q_y), ZMul(T, T)),
                             ZAdd(<<4, 0>>, q_y)),
             q_y |-> q_y]
        of_vectors(n, q, s) ==
            virtual_angles(
                theta_and_qaz_from_detector_angles(pos.delta, pos.nu),
                ZAdd(ZScale(s, ZAdd(ZMul(n[1], q[1]), ZMul(n[3], q[3]))),
                     ZMul(n[2], q[2])),
                ZNeg(n[2]), q[2])
    IN  of_vectors(n_lab_of(pos), q_lab_of(pos.delta, pos.nu),
                   SignCos(pos.delta))

\* whether an angle is within the tolerance of a grid angle in [lo, hi]
OnGridIn(value, lo, hi) ==
    /\ is_small(Off(value))
    /\ lo <= Grid(Idx(value)) /\ Grid(Idx(value)) <= hi

\* ne(value, virtual_angles[name]) for name alpha, beta or psi
virtual_ne(name, value, va) ==
    IF name = "alpha"
    THEN /\ OnGridIn(value, -(PI \div 2), PI \div 2)
         /\ ZMul(<<0, 2>>, Sin2(value)) = va.sin_alpha
    ELSE IF name = "beta"
    THEN /\ OnGridIn(value, -(PI \div 2), PI \div 2)
         /\ ZMul(<<0, 4>>, Sin2(value)) = va.sin_beta
    ELSE /\ name = "psi"
         /\ OnGridIn(value, 0, PI)
         /\ va.psi_B2 # ZZero
         /\ ZSgn(va.psi_A) = ZSgn(Cos2(value))
         /\ ZScale(2, ZMul(ZMul(va.psi_A, va.psi_A), ZNeg(va.q_y)))
               = ZMul(ZMul(Cos2(value), Cos2(value)), va.psi_B2)

\* ne(virtual_angles['alpha'], virtual_angles['beta'])
alpha_ne_beta(va) == ZScale(2, va.sin_alpha) = va.sin_beta
\* ---------------------------------------------------------------- hardware

\* The hardware collaborator: lower and upper limits and cut angles, in
\* degrees, each for the axes that have one.
cutAngle(hw, name, value) ==
    IF name \notin DOMAIN hw.cut THEN value
    ELSE IF value < hw.cut[name] THEN value + 360
    ELSE IF value >= hw.cut[name] + 360 THEN value - 360
    ELSE value

isAxisValueWithinLimits(hw, name, value) ==
    /\ name \in DOMAIN hw.lower => value >= hw.lower[name]
    /\ name \in DOMAIN hw.upper => value <= hw.upper[name]

\* the test that _generate_possible_solutions applies to a candidate
WithinLimits(hw, name, value) ==
    isAxisValueWithinLimits(hw, name, cutAngle(hw, name, TODEG(value)))

\* ------------------------------------------------------ solution explorer

\* expand(tuples_so_far, b): every tuple so far extended by every value of b,
\* the tuples so far in the outer loop
expand(tuples_so_far, b) ==
    [i \in 1..(Len(tuples_so_far) * Len(b)) |->
        Append(tuples_so_far[((i - 1) \div Len(b)) + 1], b[((i - 1) % Len(b)) + 1])]

RECURSIVE reduce_expand(_, _)
reduce_expand(tuples_so_far, lists) ==
    IF lists = <<>> THEN tuples_so_far
    ELSE reduce_expand(expand(tuples_so_far, Head(lists)), Tail(lists))

\* the transforms of one value that the hardware accepts, each cut at -pi
transforms_within_limits(hw, value, name, constrained_names) ==
    LET transformed == generate_transformed_values(value, name \in constrained_names)
        within(v) == WithinLimits(hw, name, v)
        kept == SelectSeq(transformed, within)
    IN  [i \in 1..Len(kept) |-> cut_at_minus_pi(kept[i])]

\* _generate_possible_solutions(values, names, constrained_names)
generate_possible_solutions(hw, values, names, constrained_names) ==
    LET transformed_values ==
            [i \in 1..Len(values) |->
                transforms_within_limits(hw, values[i], names[i], constrained_names)]
    IN  reduce_expand(<< <<>> >>, transformed_values)

\* ---------------------------------------------------------- detector stage

filter_detector_solutions_by_theta_and_qaz(possible_delta_nu_pairs, required_theta, required_qaz) ==
    LET required(tq) ==
            tq.theta = required_theta /\ ne_angle(tq.qaz, required_qaz)
        keep(pair) ==
            required(theta_and_qaz_from_detector_angles(pair[1], pair[2]))
    IN  SelectSeq(possible_delta_nu_pairs, keep)

\* an exception raised, or a value returned
Raise(exception, message) ==
    [raised |-> exception, message |-> message, value |-> None]
Return(value) == [raised |-> None, message |-> None, value |-> value]

\* the mutant of the choice that takes the first pair of several
choose_first_detector_angles(delta_nu_pairs) ==
    IF Len(delta_nu_pairs) = 0
    THEN Raise("NoSolutionException", "No detector solutions were found")
    ELSE Return(delta_nu_pairs[1])

choose_detector_angles(delta_nu_pairs) ==
    IF Len(delta_nu_pairs) > 1
    THEN Raise("Exception", "Multiple detector solutions were found")
    ELSE IF Len(delta_nu_pairs) = 0
    THEN Raise("NoSolutionException", "No detector solutions were found")
    ELSE Return(delta_nu_pairs[1])

\* abs(t - theta) for a pair that passed the filter, to first order in the
\* offsets of the pair from the grid:  |d(cos(delta) cos(nu))|, times 2
th_err(pair) ==
    ZAbs(ZAdd(ZScale(Off(pair[1]), ZMul(Sin2(pair[1]), Cos2(pair[2]))),
              ZScale(Off(pair[2]), ZMul(Cos2(pair[1]), Sin2(pair[2])))))

\* abs(delta_ - pi / 2) < .01 and abs(delta_ - pi / 2): .01 is above the
\* tolerance and far below the grid step
close_to_90(pair) ==
    Abs(pair[1] - PI \div 2) < 2 * SMALL /\ Abs(pair[1] - PI \div 2) # 0

\* The mutant of the clean-up that keeps the last of the closest pairs.
clean_up_keeping_last(delta_nu_pairs) ==
    LET not_close(pair) == ~close_to_90(pair)
        pairs_close_to_90 == SelectSeq(delta_nu_pairs, close_to_90)
        other_pairs == SelectSeq(delta_nu_pairs, not_close)
        least(i) == \A j \in 1..Len(pairs_close_to_90) :
                        ZSgn(ZSub(th_err(pairs_close_to_90[j]),
                                  th_err(pairs_close_to_90[i]))) >= 0
        closest_index == CHOOSE i \in 1..Len(pairs_close_to_90) :
                            /\ least(i)
                            /\ \A j \in (i + 1)..Len(pairs_close_to_90) : ~least(j)
    IN  IF Len(delta_nu_pairs) > 1 /\ pairs_close_to_90 # <<>>
        THEN Append(other_pairs, pairs_close_to_90[closest_index])
        ELSE delta_nu_pairs

\* the pairs handed to _choose_detector_angles: of the pairs close to 90
\* degrees only the one with the least theta error is kept
clean_up_close_to_90(delta_nu_pairs) ==
    LET not_close(pair) == ~close_to_90(pair)
        pairs_close_to_90 == SelectSeq(delta_nu_pairs, close_to_90)
        other_pairs == SelectSeq(delta_nu_pairs, not_close)
        least(i) == \A j \in 1..Len(pairs_close_to_90) :
                        ZSgn(ZSub(th_err(pairs_close_to_90[j]),
                                  th_err(pairs_close_to_90[i]))) >= 0
        closest_index == CHOOSE i \in 1..Len(pairs_close_to_90) :
                            least(i) /\ \A j \in 1..(i - 1) : ~least(j)
    IN  IF Len(delta_nu_pairs) > 1 /\ pairs_close_to_90 # <<>>
        THEN Append(other_pairs, pairs_close_to_90[closest_index])
        ELSE delta_nu_pairs

\* the list that _generate_final_detector_angles hands to the choice
final_delta_nu_pairs(hw, cons, initial_delta, initial_nu, qaz, theta, det_constraint_name) ==
    clean_up_close_to_90(
        filter_detector_solutions_by_theta_and_qaz(
            generate_possible_solutions(hw, <<initial_delta, initial_nu>>,
                                        <<"delta", "nu">>, {det_constraint_name}),
            theta, qaz))

\* whether _generate_final_detector_angles returns before it looks for
\* candidates
delta_is_90_and_nu_free(cons, initial_delta) ==
    ne(initial_delta, PI \div 2) /\ "nu" \notin DOMAIN cons.detector

\* ------------------------------------------------------------ sample stage

\* the mutant of the filter that keeps a tuple on either test
filter_on_either_test(delta, nu, possible_mu_eta_chi_phi_tuples, hkl, ref_constraint_name, ref_constraint_value) ==
    LET virtual_okay(virtual_angles) ==
            IF ref_constraint_name = "a_eq_b"
            THEN alpha_ne_beta(virtual_angles)
            ELSE virtual_ne(ref_constraint_name, ref_constraint_value,
                            virtual_angles)
        keep(t) ==
            \/ sequence_ne(hkl, youAnglesToHkl(
                    YouPosition(t[1], delta, nu, t[2], t[3], t[4])))
            \/ virtual_okay(anglesToVirtualAngles(
                    YouPosition(t[1], delta, nu, t[2], t[3], t[4])))
    IN  SelectSeq(possible_mu_eta_chi_phi_tuples, keep)

\* _filter_valid_sample_solutions(delta, nu, possible_mu_eta_chi_phi_tuples,
\*                                wavelength, hkl, ref_constraint_name,
\*                                ref_constraint_value)
filter_valid_sample_solutions(delta, nu, possible_mu_eta_chi_phi_tuples, hkl, ref_constraint_name, ref_constraint_value) ==
    LET \* lines 756-761: the virtual angles against the reference constraint
        reference_okay(virtual_angles) ==
            IF ref_constraint_name = "a_eq_b"
            THEN alpha_ne_beta(virtual_angles)
            ELSE virtual_ne(ref_constraint_name, ref_constraint_value,
                            virtual_angles)
        \* lines 755-765, for pos and its hkl_okay
        appended(pos, hkl_okay) ==
            LET virtual_okay == IF hkl_okay
                                THEN reference_okay(anglesToVirtualAngles(pos))
                                ELSE FALSE
            IN  hkl_okay /\ virtual_okay
        \* lines 751-753
        keep(t) ==
            LET pos == YouPosition(t[1], delta, nu, t[2], t[3], t[4])
                hkl_actual == youAnglesToHkl(pos)
            IN  appended(pos, sequence_ne(hkl, hkl_actual))
    IN  SelectSeq(possible_mu_eta_chi_phi_tuples, keep)

\* sum([abs(v) for v in solution])
absolute_distance(solution) ==
    Abs(solution[1]) + Abs(solution[2]) + Abs(solution[3]) + Abs(solution[4])

\* the mutant of the choice that takes the last of the closest tuples
choose_last_closest_sample_angles(mu_eta_chi_phi_tuples) ==
    IF Len(mu_eta_chi_phi_tuples) = 0
    THEN Raise("NoSolutionException", "No sample solutions were found")
    ELSE LET n == Len(mu_eta_chi_phi_tuples)
             shortest(i) == \A j \in 1..n :
                 absolute_distance(mu_eta_chi_phi_tuples[i])
                     <= absolute_distance(mu_eta_chi_phi_tuples[j])
             index == CHOOSE i \in 1..n :
                         shortest(i) /\ \A j \in (i + 1)..n : ~shortest(j)
         IN  Return(mu_eta_chi_phi_tuples[index])

\* _choose_sample_angles(mu_eta_chi_phi_tuples)
choose_sample_angles(mu_eta_chi_phi_tuples) ==
    IF Len(mu_eta_chi_phi_tuples) = 0
    THEN Raise("NoSolutionException", "No sample solutions were found")
    ELSE IF Len(mu_eta_chi_phi_tuples) = 1 THEN Return(mu_eta_chi_phi_tuples[1])
    ELSE LET n == Len(mu_eta_chi_phi_tuples)
             absolute_distances ==
                 [i \in 1..n |-> absolute_distance(mu_eta_chi_phi_tuples[i])]
             is_min(i) == \A j \in 1..n :
                 absolute_distances[i] <= absolute_distances[j]
             \* absolute_distances.index(min(absolute_distances))
             shortest_solution_index ==
                 CHOOSE i \in 1..n : is_min(i) /\ \A j \in 1..(i - 1) : ~is_min(j)
         IN  Return(mu_eta_chi_phi_tuples[shortest_solution_index])

\* the tuples that _generate_final_sample_angles hands to the choice
valid_sample_tuples(hw, mu_, eta_, chi_, phi_, sample_constraint_names, delta, nu, hkl, ref_constraint_name, ref_constraint_value) ==
    filter_valid_sample_solutions(
        delta, nu,
        generate_possible_solutions(hw, <<mu_, eta_, chi_, phi_>>,
                                    <<"mu", "eta", "chi", "phi">>,
                                    sample_constraint_names),
        hkl, ref_constraint_name, ref_constraint_value)

\* ------------------------------------------- constraint-resolution engine

\* The closed forms of the engine (asin, acos and atan2 of matrix elements)
\* are not evaluated.  A solve is given a position `solution` that reaches
\* hkl, and a closed form yields, for an angle it solves for, a value
\* equivalent to the solution's (v, -v, pi + v or pi - v, as `branch`
\* selects) off by the floating-point `noise`; an angle that is constrained
\* is passed through.  The explorer is handed these values as the code hands
\* it the closed forms' results.

Principal(v) ==
    IF v > PI THEN v - 2 * PI ELSE IF v <= -PI THEN v + 2 * PI ELSE v

Equivalent(v, b) ==
    Principal(IF b % 4 = 0 THEN v
              ELSE IF b % 4 = 1 THEN -v
              ELSE IF b % 4 = 2 THEN PI + v
              ELSE PI - v)

Provisional(v, b, noise) == Equivalent(v, b) + noise

NameOf(dict) == CHOOSE name \in DOMAIN dict : TRUE

\* |hkl|^2 (times 64); UB is (2 pi / wavelength) times the identity
norm2(v) == ZAdd(ZAdd(ZMul(v[1], v[1]), ZMul(v[2], v[2])), ZMul(v[3], v[3]))

\* _calc_theta(h_phi, wavelength): sin(theta) = |hkl| / 2, so that
\* 128 cos(2 theta) = 128 - 64 |hkl|^2
calc_theta(hkl) ==
    IF norm2(hkl) = ZZero
    THEN Raise("DiffcalcException", "Reflection is unreachable as |Q| is 0")
    ELSE IF ZSgn(ZSub(norm2(hkl), <<256, 0>>)) > 0
    THEN Raise("DiffcalcException", "Reflection is unreachable as |Q| is too long")
    ELSE Return(ZSub(<<128, 0>>, norm2(hkl)))

\* sin(tau) == 0: tau = angle_between_vectors(h_phi, n_phi) is exactly 0
\* where hkl has the direction of n_phi = (0, 0, 1)
sin_tau_is_0(hkl) == hkl[1] = ZZero /\ hkl[2] = ZZero /\ ZSgn(hkl[3]) > 0

\* (sin(tau) cos(theta))^2 times 256 |hkl8|^2, from
\* cos(tau) = l / |hkl| and sin(theta) = |hkl| / 2
sin_tau_cos_theta_sq(hkl) ==
    ZMul(ZSub(norm2(hkl), ZMul(hkl[3], hkl[3])), ZSub(<<256, 0>>, norm2(hkl)))

\* 8 sin(value) for a grid angle
Sin8(value) == ZMul(<<0, 4>>, Sin2(value))

\* _calc_remaining_reference_angles(name, value, theta, tau): the exception
\* it raises, or else whether the alpha it returns has cos(alpha) = 0 (the
\* one property of its results that the code tests; the closed forms that
\* consume psi and alpha are not evaluated).  With l = hkl[3]:
\*   2 sin(theta) cos(tau) = l,  cos(tau) sin(theta) = l / 2;
\*   alpha:   sin(beta) = l - sin(alpha), asin of it;
\*   beta:    sin(alpha) = l - sin(beta);
\*   a_eq_b:  sin(alpha) = l / 2;
\*   psi:     sin(alpha) = l / 2 - sin(tau) cos(theta) cos(psi), never
\*            beyond 1 in magnitude;
\*   cos(psi) = (l / 2 - sin(alpha)) / (sin(tau) cos(theta)), bound() of it.
calc_remaining_reference_angles(name, value, hkl) ==
    LET \* 16 sin(alpha), under alpha, beta and a_eq_b
        sin_alpha == IF name = "alpha" THEN ZScale(2, Sin8(value))
                     ELSE IF name = "beta"
                     THEN ZScale(2, ZSub(hkl[3], Sin8(value)))
                     ELSE hkl[3]
        \* 16 (cos(tau) sin(theta) - sin(alpha))
        top == ZSub(hkl[3], sin_alpha)
        beyond(x, one) == ZSgn(ZSub(ZAbs(x), <<one, 0>>)) > 0
        \* sin(alpha) = sg under a psi constraint
        psi_gives(sg) ==
            /\ ZMul(sin_tau_cos_theta_sq(hkl), ZMul(Cos2(value), Cos2(value)))
                 = ZScale(4, ZMul(norm2(hkl),
                                  ZMul(ZSub(hkl[3], <<16 * sg, 0>>),
                                       ZSub(hkl[3], <<16 * sg, 0>>))))
            /\ ZSgn(Cos2(value)) * sg <= 0
    IN  IF sin_tau_is_0(hkl)
        THEN Raise("DiffcalcException", "Q and n are parallel")
        ELSE IF name = "psi"
        THEN Return(psi_gives(1) \/ psi_gives(-1))
        ELSE IF name = "alpha" /\ beyond(ZSub(hkl[3], Sin8(value)), 8)
        THEN Raise("ValueError", "math domain error")
        ELSE IF name = "beta" /\ beyond(sin_alpha, 16)
        THEN Raise("DiffcalcException", "No reflection can be reached where beta")
        ELSE IF ZSgn(ZSub(ZMul(norm2(hkl), ZMul(top, top)),
                          sin_tau_cos_theta_sq(hkl))) > 0
        THEN Raise("AssertionError", "bound")
        ELSE Return(ZAbs(sin_alpha) = <<16, 0>>)
\* naz = atan2(n_lab[0], n_lab[2]) of a position, where it is a grid angle
naz_of(pos) ==
    LET atan2(n) ==
            IF n[1] # ZZero THEN Atan2OnGrid(n[1], n[3])
            ELSE IF ZSgn(n[3]) > 0 THEN 0
            ELSE IF ZSgn(n[3]) < 0 THEN PI
            ELSE NoAngle
    IN  atan2(n_lab_of(pos))

qaz_of(pos) == theta_and_qaz_from_detector_angles(pos.delta, pos.nu).qaz

\* a detector pair equivalent to the solution's that has the given qaz
detector_solution_for(qaz, theta, solution) ==
    LET variants == { <<sd * solution.delta, sn * solution.nu>> :
                        sd \in {1, -1}, sn \in {1, -1} }
        fits(tq) ==
            /\ tq.theta = theta
            /\ tq.qaz # NoAngle
            /\ (tq.qaz - Grid(Idx(qaz))) % (2 * PI) = 0
        one_of(fitting) ==
            IF fitting = {} THEN <<solution.delta, solution.nu>>
            ELSE CHOOSE pair \in fitting : TRUE
    IN  one_of({ pair \in variants :
                   fits(theta_and_qaz_from_detector_angles(pair[1], pair[2])) })

\* is_small(sin(2 * theta))
sin_2theta_is_small(theta) == ZAbs(theta) = <<128, 0>>

\* _calc_remaining_detector_angles(constraint_name, constraint_value, theta):
\* the exception it raises, or <<delta, nu, qaz>>
calc_remaining_detector_angles(constraint_name, constraint_value, theta, solution, branch, noise) ==
    LET sin_sq == ZMul(Sin2(constraint_value), Sin2(constraint_value))
        cos_sq == ZMul(Cos2(constraint_value), Cos2(constraint_value))
        sin_2theta_sq == ZSub(<<16384, 0>>, ZMul(theta, theta))
        qaz_given(q) ==
            IF constraint_name = "delta"
            \* asin(bound(sin(delta) / sin_2theta)), in [-pi/2, pi/2]
            THEN IF Abs(q) <= PI \div 2 THEN q ELSE Principal(PI - q)
            ELSE IF constraint_name = "nu"
            \* acos(bound(cos_qaz)), in [0, pi]
            THEN Abs(q)
            ELSE constraint_value
        delta_nu_qaz(found, qaz) ==
            <<IF constraint_name = "delta" THEN constraint_value
              ELSE Provisional(found[1], branch, noise),
              IF constraint_name = "nu" THEN constraint_value
              ELSE Provisional(found[2], branch + 1, noise),
              qaz>>
        with_qaz(qaz) ==
            delta_nu_qaz(detector_solution_for(qaz, theta, solution), qaz)
    IN  IF constraint_name \in {"delta", "nu"} /\ sin_2theta_is_small(theta)
        \* the raise statement multiplies its message by a float
        THEN Raise("TypeError", "can't multiply sequence by non-int")
        ELSE IF constraint_name = "delta"
                /\ ZSgn(ZSub(ZScale(4096, sin_sq), sin_2theta_sq)) > 0
        THEN Raise("AssertionError", "bound")
        ELSE IF constraint_name = "nu"
                /\ ZSgn(ZSub(ZMul(sin_sq, ZMul(theta, theta)),
                             ZMul(sin_2theta_sq, cos_sq))) > 0
        THEN Raise("DiffcalcException",
                   "The specified nu is greater than the 2theta")
        ELSE IF constraint_name \notin {"delta", "nu", "qaz"}
        THEN Raise("ValueError", "not an explicit detector angle")
        ELSE Return(with_qaz(qaz_given(qaz_of(solution))))

\* qaz, nu and delta under a naz constraint (lines 279-289):
\* qaz = naz - acos(...), the angle between naz and qaz taken in [0, pi]
detector_angles_given_naz(naz, theta, solution, branch, noise) ==
    LET delta_nu_qaz(found, qaz) ==
            <<Provisional(found[1], branch, noise),
              Provisional(found[2], branch + 1, noise), qaz>>
        with_qaz(qaz) ==
            delta_nu_qaz(detector_solution_for(qaz, theta, solution), qaz)
        naz_qaz_angle == Abs(Principal(naz - qaz_of(solution)))
    IN  with_qaz(naz - naz_qaz_angle)

\* the mutant of the derivation that treats the four fixed angles alike: eta
\* set to 0 where chi is at 0 or 180 degrees, and no position refused
calc_remaining_sample_angles_alike(constraint_name, constraint_value, solution, branch, noise) ==
    LET angle(name, b) == IF name = constraint_name THEN constraint_value
                          ELSE Provisional(solution[name], b, noise)
        chi == angle("chi", branch + 2)
    IN  Return(<<angle("mu", branch),
                 IF Sin2(chi) = ZZero THEN 0 ELSE angle("eta", branch + 1),
                 chi, angle("phi", branch + 3)>>)

\* _calc_remaining_sample_angles(constraint_name, constraint_value, q_lab,
\* n_lab, q_phi, n_phi): the exception it raises, or <<mu, eta, chi, phi>>
calc_remaining_sample_angles(constraint_name, constraint_value, solution, branch, noise) ==
    LET mu == Provisional(solution.mu, branch, noise)
        eta == Provisional(solution.eta, branch + 1, noise)
        chi == Provisional(solution.chi, branch + 2, noise)
        phi == Provisional(solution.phi, branch + 3, noise)
        \* with chi at 0 or 180 phi and eta turn about one axis
        phi_and_eta == IF Cos2(solution.chi) = <<2, 0>>
                       THEN solution.phi + solution.eta
                       ELSE solution.phi - solution.eta
    IN  IF constraint_name = "mu"
        THEN IF Sin2(chi) = ZZero
             THEN Return(<<constraint_value, 0, chi,
                           Provisional(Principal(phi_and_eta), branch + 3,
                                       noise)>>)
             ELSE Return(<<constraint_value, eta, chi, phi>>)
        ELSE IF constraint_name = "phi"
        THEN IF Cos2(eta) = ZZero
             THEN Raise("ValueError", "Chi and mu cannot be chosen uniquely")
             ELSE Return(<<mu, eta, chi, constraint_value>>)
        ELSE IF constraint_name = "eta"
        THEN IF Cos2(constraint_value) = ZZero
             THEN Raise("ValueError", "Chi and mu cannot be chosen uniquely")
             ELSE Return(<<mu, constraint_value, chi, phi>>)
        ELSE IF constraint_name = "chi"
        THEN IF Sin2(constraint_value) = ZZero
             THEN Raise("ValueError", "Eta and phi cannot be chosen uniquely")
             ELSE Return(<<mu, eta, constraint_value, phi>>)
        ELSE Raise("ValueError", "Given angle must be one of phi, chi, eta or mu")

\* the mutant of the derivation that takes every pair of sample constraints
calc_angles_given_any_two_sample_and_reference(samp_constraints, solution, branch, noise) ==
    LET given == DOMAIN samp_constraints
        angle(name, b) == IF name \in given THEN samp_constraints[name]
                          ELSE Provisional(solution[name], b, noise)
    IN  Return(<<Provisional(Principal(qaz_of(solution) - PI \div 2), branch,
                             noise),
                 angle("mu", branch), angle("eta", branch + 1),
                 angle("chi", branch + 2), angle("phi", branch + 3)>>)

\* _calc_angles_given_two_sample_and_reference(samp_constraints, psi, theta,
\* q_phi, n_phi): the exception it raises, or <<xi, mu, eta, chi, phi>>
calc_angles_given_two_sample_and_reference(samp_constraints, solution, branch, noise) ==
    LET given == DOMAIN samp_constraints
        mu == IF "mu" \in given THEN samp_constraints["mu"]
              ELSE Provisional(solution.mu, branch, noise)
        eta == IF "eta" \in given THEN samp_constraints["eta"]
               ELSE Provisional(solution.eta, branch + 1, noise)
        chi == IF "chi" \in given THEN samp_constraints["chi"]
               ELSE Provisional(solution.chi, branch + 2, noise)
        phi == IF "phi" \in given THEN samp_constraints["phi"]
               ELSE Provisional(solution.phi, branch + 3, noise)
        angles(xi) ==
            IF "chi" \in given /\ "phi" \in given
            THEN Return(<<xi, mu, eta, chi, phi>>)
            ELSE IF "mu" \in given /\ "eta" \in given
            THEN Return(<<xi, mu, eta, chi, phi>>)
            ELSE IF "chi" \in given /\ "mu" \in given
            THEN IF ~is_small(mu) /\ ~is_small(chi - PI \div 2)
                 THEN Raise("Exception",
                            "modes only currently work with chi=90 and mu=0")
                 ELSE Return(<<xi, mu, eta, chi, phi>>)
            ELSE Raise("DiffcalcException",
                       "No code yet to handle this combination of 2 sample constraints")
    IN  angles(Provisional(Principal(qaz_of(solution) - PI \div 2), branch,
                           noise))
\* ------------------------------------------------------------ _hklToAngles

\* The local variables of _hklToAngles, None until assigned.  detector and
\* sample hold the result of the last call of _generate_final_detector_angles
\* and of _generate_final_sample_angles, delta_nu_pairs and
\* mu_eta_chi_phi_tuples the lists those calls handed to the choice
\* (chose_detector tells whether the detector call came to its choice),
\* xi_tried the xi values the loop has been through.
NotCalled == [raised |-> "not called", message |-> None, value |-> None]

NewFrame ==
    [theta |-> None, cos_alpha_is_0 |-> None, qaz |-> None,
     delta |-> None, nu |-> None,
     mu |-> None, eta |-> None, chi |-> None, phi |-> None,
     xi_values |-> <<>>, xi_tried |-> <<>>,
     detector |-> NotCalled, chose_detector |-> FALSE, delta_nu_pairs |-> <<>>,
     sample |-> NotCalled, mu_eta_chi_phi_tuples |-> <<>>]

\* an exception leaves _hklToAngles
Propagate(exception) ==
    /\ pc' = "raise"
    /\ ret' = exception
    /\ UNCHANGED frame

\* _generate_final_detector_angles(initial_delta, initial_nu, qaz, theta,
\* det_constraint_name), lines 687-724: its result with what it handed to
\* the choice
generate_final_detector_angles(hw, cons, initial_delta, initial_nu, qaz, theta, det_constraint_name) ==
    LET chosen_of(delta_nu_pairs) ==
            [result |-> choose_detector_angles(delta_nu_pairs),
             chose_detector |-> TRUE, delta_nu_pairs |-> delta_nu_pairs]
    IN  IF delta_is_90_and_nu_free(cons, initial_delta)
        THEN [result |-> Return(<<initial_delta, 0>>),
              chose_detector |-> FALSE, delta_nu_pairs |-> <<>>]
        ELSE chosen_of(final_delta_nu_pairs(hw, cons, initial_delta,
                                            initial_nu, qaz, theta,
                                            det_constraint_name))

\* lines 245-247
CalcTheta ==
    /\ pc = "calc_theta"
    /\ LET theta == calc_theta(args.hkl)
       IN  IF theta.raised # None THEN Propagate(theta)
           ELSE /\ frame' = [frame EXCEPT !.theta = theta.value]
                /\ pc' = "reference"
                /\ UNCHANGED ret
    /\ UNCHANGED <<args, constraints, hardware>>

\* lines 249-260
ReferenceStage ==
    /\ pc = "reference"
    /\ IF ~Truthy(constraints.reference)
       THEN Propagate(Raise("RuntimeError",
                "No code yet to handle the absence of a reference constraint!"))
       ELSE LET ref_constraint_name == NameOf(constraints.reference)
                ref_constraint_value == constraints.reference[ref_constraint_name]
                assign(angles) ==
                    IF angles.raised # None THEN Propagate(angles)
                    ELSE /\ frame' = [frame EXCEPT !.cos_alpha_is_0 = angles.value]
                         /\ pc' = "detector"
                         /\ UNCHANGED ret
            IN  assign(calc_remaining_reference_angles(
                           ref_constraint_name, ref_constraint_value, args.hkl))
    /\ UNCHANGED <<args, constraints, hardware>>

\* lines 262-293.  After line 271 det_constraint is the constrained value,
\* and line 291 tests that value: a detector angle constrained to 0 skips
\* _generate_final_detector_angles.
DetectorStage ==
    /\ pc = "detector"
    /\ LET det_constraint == constraints.detector
           naz_constraint == constraints.naz
           too_small == Raise("ValueError",
                              "cos(alpha) or cos(theta) are too small")
           \* lines 291-293: the call and its assignment
           assign(angles, call) ==
               IF call.result.raised # None
               THEN /\ pc' = "raise"
                    /\ ret' = call.result
                    /\ frame' = [frame EXCEPT
                           !.detector = call.result,
                           !.chose_detector = call.chose_detector,
                           !.delta_nu_pairs = call.delta_nu_pairs]
               ELSE /\ frame' = [frame EXCEPT
                           !.delta = call.result.value[1],
                           !.nu = call.result.value[2],
                           !.qaz = angles[3],
                           !.detector = call.result,
                           !.chose_detector = call.chose_detector,
                           !.delta_nu_pairs = call.delta_nu_pairs]
                    /\ pc' = "sample"
                    /\ UNCHANGED ret
           finish(angles, det_constraint_name, final) ==
               IF ~final
               THEN /\ frame' = [frame EXCEPT !.delta = angles[1],
                                              !.nu = angles[2],
                                              !.qaz = angles[3]]
                    /\ pc' = "sample"
                    /\ UNCHANGED ret
               ELSE assign(angles,
                           generate_final_detector_angles(hardware, constraints,
                               angles[1], angles[2], angles[3],
                               frame.theta, det_constraint_name))
           \* lines 273-289 hand over <<delta, nu, qaz>>, or a constraint on
           \* a detector angle an exception
           constrained(angles, det_constraint_name, value) ==
               IF angles.raised # None THEN Propagate(angles)
               ELSE IF frame.cos_alpha_is_0 THEN Propagate(too_small)
               ELSE finish(angles.value, det_constraint_name, value # 0)
       IN  IF Truthy(det_constraint) /\ Truthy(naz_constraint)
           THEN Propagate(Raise("AssertionError",
                                "Two 'detector' constraints given"))
           ELSE IF Truthy(det_constraint)
           THEN LET det_constraint_name == NameOf(det_constraint)
                    value == det_constraint[det_constraint_name]
                IN  constrained(calc_remaining_detector_angles(
                                    det_constraint_name, value, frame.theta,
                                    args.solution, args.branch, args.noise),
                                det_constraint_name, value)
           ELSE IF Truthy(naz_constraint)
           THEN IF frame.cos_alpha_is_0 THEN Propagate(too_small)
                ELSE finish(detector_angles_given_naz(
                                naz_constraint["naz"], frame.theta,
                                args.solution, args.branch, args.noise),
                            "naz", TRUE)
           ELSE /\ pc' = "sample"
                /\ UNCHANGED <<frame, ret>>
    /\ UNCHANGED <<args, constraints, hardware>>
ref_constraint_name_of(cons) == NameOf(cons.reference)
ref_constraint_value_of(cons) == cons.reference[NameOf(cons.reference)]

\* _generate_final_sample_angles(mu_, eta_, chi_, phi_,
\* sample_constraint_names, delta, nu, wavelength, hkl, ref_constraint_name,
\* ref_constraint_value), lines 726-740: its result with what it handed to
\* the choice
generate_final_sample_angles(hw, cons, mu_, eta_, chi_, phi_, delta, nu, hkl) ==
    LET chosen_of(mu_eta_chi_phi_tuples) ==
            [result |-> choose_sample_angles(mu_eta_chi_phi_tuples),
             mu_eta_chi_phi_tuples |-> mu_eta_chi_phi_tuples]
    IN  chosen_of(valid_sample_tuples(hw, mu_, eta_, chi_, phi_,
                                      DOMAIN cons.sample, delta, nu, hkl,
                                      ref_constraint_name_of(cons),
                                      ref_constraint_value_of(cons)))

\* lines 299-319
OneSampleConstraint ==
    /\ pc = "sample"
    /\ Cardinality(DOMAIN constraints.sample) = 1
    /\ IF ~Truthy(constraints.detector) /\ ~Truthy(constraints.naz)
       THEN Propagate(Raise("UnboundLocalError",
                            "local variable 'qaz' referenced before assignment"))
       ELSE LET sample_constraint_name == NameOf(constraints.sample)
                sample_value == constraints.sample[sample_constraint_name]
                \* lines 315-319: the call and its assignment
                assign(call) ==
                    IF call.result.raised # None
                    THEN /\ pc' = "raise"
                         /\ ret' = call.result
                         /\ frame' = [frame EXCEPT
                                !.sample = call.result,
                                !.mu_eta_chi_phi_tuples = call.mu_eta_chi_phi_tuples]
                    ELSE /\ frame' = [frame EXCEPT
                                !.mu = call.result.value[1],
                                !.eta = call.result.value[2],
                                !.chi = call.result.value[3],
                                !.phi = call.result.value[4],
                                !.sample = call.result,
                                !.mu_eta_chi_phi_tuples = call.mu_eta_chi_phi_tuples]
                         /\ pc' = "create_position"
                         /\ UNCHANGED ret
                finish(angles) ==
                    IF angles.raised # None THEN Propagate(angles)
                    ELSE assign(generate_final_sample_angles(hardware, constraints,
                                    angles.value[1], angles.value[2],
                                    angles.value[3], angles.value[4],
                                    frame.delta, frame.nu, args.hkl))
            IN  finish(calc_remaining_sample_angles(sample_constraint_name,
                           sample_value, args.solution, args.branch,
                           args.noise))
    /\ UNCHANGED <<args, constraints, hardware>>

\* lines 321-329 and the head of the loop at line 333
TwoSampleConstraints ==
    /\ pc = "sample"
    /\ Cardinality(DOMAIN constraints.sample) = 2
    /\ LET assign(angles) ==
               IF angles.raised # None THEN Propagate(angles)
               ELSE /\ frame' = [frame EXCEPT
                           !.mu = angles.value[2], !.eta = angles.value[3],
                           !.chi = angles.value[4], !.phi = angles.value[5],
                           !.xi_values =
                               generate_transformed_values(angles.value[1], FALSE)]
                    /\ pc' = "xi"
                    /\ UNCHANGED ret
       IN  assign(calc_angles_given_two_sample_and_reference(
                      constraints.sample, args.solution, args.branch,
                      args.noise))
    /\ UNCHANGED <<args, constraints, hardware>>

\* The mutant of the loop body that filters the sample tuples with the
\* detector angles of the closed form instead of the chosen ones.
try_xi_with_initial_detector_angles(hw, cons, hkl, f, xi, solution, branch, noise) ==
    LET qaz_ == xi + PI \div 2
        qaz == IF qaz_ > 2 * PI THEN qaz_ - 2 * PI ELSE qaz_
        \* lines 339-345: the frame after the detector call, delta and nu
        \* assigned by line 339 and again by line 343
        after_detector(initial, detector) ==
            [f EXCEPT !.xi_tried = Append(@, xi),
                      !.xi_values = Tail(@),
                      !.qaz = initial[3],
                      !.delta = IF detector.result.raised # None
                                THEN initial[1] ELSE detector.result.value[1],
                      !.nu = IF detector.result.raised # None
                             THEN initial[2] ELSE detector.result.value[2],
                      !.detector = detector.result,
                      !.chose_detector = detector.chose_detector,
                      !.delta_nu_pairs = detector.delta_nu_pairs]
        \* lines 348-354: the frame after the sample call
        after_sample(tried, sample) ==
            [tried EXCEPT
                !.sample = sample.result,
                !.mu_eta_chi_phi_tuples = sample.mu_eta_chi_phi_tuples]
        with_detector(initial, tried) ==
            IF tried.detector.raised # None THEN tried
            ELSE after_sample(tried,
                     generate_final_sample_angles(hw, cons, f.mu, f.eta, f.chi,
                         f.phi, initial[1], initial[2], hkl))
        with_initial(initial) ==
            with_detector(initial,
                after_detector(initial,
                    generate_final_detector_angles(hw, cons, initial[1],
                        initial[2], initial[3], f.theta, "qaz")))
    IN  with_initial(calc_remaining_detector_angles("qaz", qaz, f.theta,
                         solution, branch, noise).value)

\* One pass of the loop body, lines 334-355, for the value xi: the frame
\* after it.
try_xi(hw, cons, hkl, f, xi, solution, branch, noise) ==
    LET qaz_ == xi + PI \div 2
        qaz == IF qaz_ > 2 * PI THEN qaz_ - 2 * PI ELSE qaz_
        \* lines 339-345: the frame after the detector call, delta and nu
        \* assigned by line 339 and again by line 343
        after_detector(initial, detector) ==
            [f EXCEPT !.xi_tried = Append(@, xi),
                      !.xi_values = Tail(@),
                      !.qaz = initial[3],
                      !.delta = IF detector.result.raised # None
                                THEN initial[1] ELSE detector.result.value[1],
                      !.nu = IF detector.result.raised # None
                             THEN initial[2] ELSE detector.result.value[2],
                      !.detector = detector.result,
                      !.chose_detector = detector.chose_detector,
                      !.delta_nu_pairs = detector.delta_nu_pairs]
        \* lines 348-354: the frame after the sample call
        after_sample(tried, sample) ==
            [tried EXCEPT
                !.sample = sample.result,
                !.mu_eta_chi_phi_tuples = sample.mu_eta_chi_phi_tuples]
        with_detector(initial, tried) ==
            IF tried.detector.raised # None THEN tried
            ELSE after_sample(tried,
                     generate_final_sample_angles(hw, cons, f.mu, f.eta, f.chi,
                         f.phi, tried.delta, tried.nu, hkl))
        with_initial(initial) ==
            with_detector(initial,
                after_detector(initial,
                    generate_final_detector_angles(hw, cons, initial[1],
                        initial[2], initial[3], f.theta, "qaz")))
    IN  with_initial(calc_remaining_detector_angles("qaz", qaz, f.theta,
                         solution, branch, noise).value)

\* lines 333-358: the loop takes the next xi; NoSolutionException from
\* either call goes on to the next value, any other exception leaves
TryXi ==
    /\ pc = "xi"
    /\ frame.xi_values # <<>>
    /\ LET leave(after, failed) ==
               /\ frame' = IF failed.raised = None
                           THEN [after EXCEPT !.mu = after.sample.value[1],
                                              !.eta = after.sample.value[2],
                                              !.chi = after.sample.value[3],
                                              !.phi = after.sample.value[4]]
                           ELSE after
               /\ IF failed.raised = None
                  THEN pc' = "create_position" /\ UNCHANGED ret
                  ELSE IF failed.raised = "NoSolutionException"
                  THEN pc' = "xi" /\ UNCHANGED ret
                  ELSE pc' = "raise" /\ ret' = failed
           pass(after) ==
               leave(after, IF after.detector.raised # None THEN after.detector
                            ELSE after.sample)
       IN  pass(try_xi(hardware, constraints, args.hkl, frame,
                       Head(frame.xi_values), args.solution, args.branch,
                       args.noise))
    /\ UNCHANGED <<args, constraints, hardware>>

\* the mutant of the end of the loop that gives up with xi values untried
XiAbandoned ==
    /\ pc = "xi"
    /\ Propagate(Raise("Exception", "No solutions were found"))
    /\ UNCHANGED <<args, constraints, hardware>>

\* lines 359-361
XiExhausted ==
    /\ pc = "xi"
    /\ frame.xi_values = <<>>
    /\ Propagate(Raise("Exception", "No solutions were found"))
    /\ UNCHANGED <<args, constraints, hardware>>

\* lines 366-368
ThreeSampleConstraints ==
    /\ pc = "sample"
    /\ Cardinality(DOMAIN constraints.sample) = 3
    /\ Propagate(Raise("DiffcalcException",
                       "No code yet to handle 3 sample constraints!"))
    /\ UNCHANGED <<args, constraints, hardware>>

\* lines 374-386
CreatePosition ==
    /\ pc = "create_position"
    /\ LET position == tidy_degenerate_solutions(
                           YouPosition(frame.mu, frame.delta, frame.nu,
                                       frame.eta, frame.chi, frame.phi),
                           constraints)
       IN  ret' = Return(IF position.phi <= -PI + SMALL
                         THEN [position EXCEPT !.phi = @ + 2 * PI]
                         ELSE position)
    /\ pc' = "return"
    /\ UNCHANGED <<args, constraints, hardware, frame>>
\* ---------------------------------------------------------- the solves run

Limits(lower, upper) ==
    [lower |-> lower, upper |-> upper, cut |-> [phi |-> -180]]

\* limits and cuts in degrees: none; a detector arm kept below 90 degrees;
\* a detector in the upper forward quadrant with a sample circle limited;
\* the sample circle mu kept within 45 degrees
Hardwares ==
    { Limits(<<>>, <<>>),
      Limits([delta |-> 0], [delta |-> 60]),
      Limits([delta |-> 0, nu |-> 0, eta |-> -90],
             [delta |-> 180, nu |-> 180, eta |-> 90]),
      Limits([mu |-> -45], [mu |-> 45]) }

\* The positions that generate the targets: eight with eta at 45 degrees,
\* two with mu and chi both at 45 degrees (the pair of fixed chi and mu that
\* is not handled), one that generates hkl = 0, two degenerate ones: a
\* horizontal one (delta = eta = 0, chi = 90 degrees, phi and mu colinear)
\* and a vertical one (mu = nu = 0, chi = 0, phi and eta colinear), one
\* with phi at -180 degrees, one with chi at 0 and eta off +-90 degrees, and
\* one with eta at 90 degrees and chi off 0.
DetectorPairs == { <<Grid(2), 0>>, <<0, Grid(1)>> }

Solutions ==
    { YouPosition(mu, pair[1], pair[2], Grid(1), chi, 0) :
        mu \in {0, Grid(1)}, chi \in {Grid(1), Grid(2)}, pair \in DetectorPairs }
        \cup { YouPosition(Grid(1), pair[1], pair[2], 0, Grid(1), 0) :
                  pair \in DetectorPairs }
        \cup { YouPosition(0, 0, 0, 0, Grid(2), 0) }
        \cup { YouPosition(0, 0, Grid(3), 0, Grid(2), Grid(3)),
               YouPosition(0, Grid(2), 0, Grid(2), 0, -Grid(1)) }
        \cup { YouPosition(0, Grid(2), 0, Grid(1), Grid(1), -Grid(4)) }
        \cup { YouPosition(0, Grid(2), 0, Grid(1), 0, 0),
               YouPosition(0, Grid(2), 0, Grid(2), Grid(1), 0) }

\* hkl at backscattering, and hkl opposite to n_phi, are left out: there the
\* code divides by floating-point noise
Solvable(hkl) ==
    /\ norm2(hkl) # <<256, 0>>
    /\ ~(hkl[1] = ZZero /\ hkl[2] = ZZero /\ ZSgn(hkl[3]) < 0)

\* the reference constraints
References ==
    { [a_eq_b |-> None] }
        \cup { [alpha |-> Grid(k)] : k \in -2..2 }
        \cup { [beta |-> Grid(k)] : k \in -2..2 }
        \cup { [psi |-> Grid(k)] : k \in 0..4 }

\* reference constraints that some hkl cannot meet
Unreachable == { [alpha |-> -Grid(2)], [beta |-> -Grid(2)] }

\* The reference constraints of a solve for the hkl of a position: those the
\* position satisfies, and of a_eq_b and the unreachable ones those for
\* which the solve fails before a closed form is evaluated.
ReferencesOf(pos) ==
    LET hkl == youAnglesToHkl(pos)
        virtual_angles == anglesToVirtualAngles(pos)
        satisfied(r) ==
            IF "a_eq_b" \in DOMAIN r THEN alpha_ne_beta(virtual_angles)
            ELSE virtual_ne(NameOf(r), r[NameOf(r)], virtual_angles)
        fails(r) ==
            \/ calc_theta(hkl).raised # None
            \/ calc_remaining_reference_angles(NameOf(r), r[NameOf(r)],
                                               hkl).raised # None
    IN  { r \in References : satisfied(r) }
            \cup { r \in Unreachable \cup {[a_eq_b |-> None]} : fails(r) }

\* the detector and sample constraints that fix angles of a position at the
\* values they have in it, or at those values a turn away
ConstraintSetsOf(pos) ==
    LET one == { <<[delta |-> pos.delta], <<>>, [mu |-> pos.mu]>>,
                 <<[delta |-> pos.delta], <<>>, [mu |-> pos.mu + 2 * PI]>>,
                 <<[nu |-> pos.nu], <<>>, [phi |-> pos.phi - 2 * PI]>>,
                 <<[nu |-> pos.nu], <<>>, [phi |-> pos.phi]>>,
                 <<[nu |-> pos.nu], <<>>, [eta |-> pos.eta]>>,
                 <<[qaz |-> qaz_of(pos)], <<>>, [eta |-> pos.eta]>>,
                 <<[qaz |-> qaz_of(pos)], <<>>, [chi |-> pos.chi]>> }
        with_naz == IF naz_of(pos) = NoAngle THEN {}
                    ELSE { <<<<>>, [naz |-> naz_of(pos)], [mu |-> pos.mu]>> }
        two == { <<<<>>, <<>>, s>> :
                    s \in { [chi |-> pos.chi, phi |-> pos.phi],
                            [mu |-> pos.mu, eta |-> pos.eta],
                            [chi |-> pos.chi, mu |-> pos.mu],
                            [mu |-> pos.mu, phi |-> pos.phi],
                            [eta |-> pos.eta, chi |-> pos.chi],
                            [eta |-> pos.eta, phi |-> pos.phi] } }
        three == { <<<<>>, <<>>,
                     [mu |-> pos.mu, eta |-> pos.eta, chi |-> pos.chi]>> }
    IN  { [reference |-> r, detector |-> g[1], naz |-> g[2], sample |-> g[3]] :
            r \in ReferencesOf(pos), g \in one \cup with_naz \cup two \cup three }

Branches == 0..1

Init ==
    /\ pc = "calc_theta"
    /\ \E pos \in Solutions, b \in Branches, o \in Offsets :
         /\ Solvable(youAnglesToHkl(pos))
         /\ qaz_of(pos) # NoAngle \/ norm2(youAnglesToHkl(pos)) = ZZero
         /\ args = [hkl |-> youAnglesToHkl(pos), solution |-> pos,
                   branch |-> b, noise |-> o]
    /\ constraints \in ConstraintSetsOf(args.solution)
    /\ hardware \in Hardwares
    /\ frame = NewFrame
    /\ ret = None

Next ==
    \/ CalcTheta
    \/ ReferenceStage
    \/ DetectorStage
    \/ OneSampleConstraint
    \/ TwoSampleConstraints
    \/ TryXi
    \/ XiExhausted
    \/ ThreeSampleConstraints
    \/ CreatePosition

Spec == Init /\ [][Next]_vars

\* ------------------------------------------------- the solve: the claims

\* the position handed to the clean-up at line 377
Chosen ==
    YouPosition(frame.mu, frame.delta, frame.nu, frame.eta, frame.chi, frame.phi)

\* the clean-up of line 377 moved an angle
Redistributed == tidy_degenerate_solutions(Chosen, constraints) # Chosen

\* a tuple passes both tests of the filter, with delta and nu
tuple_okay(delta, nu, t) ==
    LET pos == YouPosition(t[1], delta, nu, t[2], t[3], t[4])
        virtual_angles == anglesToVirtualAngles(pos)
    IN  /\ sequence_ne(args.hkl, youAnglesToHkl(pos))
        /\ IF ref_constraint_name_of(constraints) = "a_eq_b"
           THEN alpha_ne_beta(virtual_angles)
           ELSE virtual_ne(ref_constraint_name_of(constraints),
                           ref_constraint_value_of(constraints), virtual_angles)

\* the solve has returned a position
Solved == pc = "return" /\ ret.raised = None

\* C1: whenever the solve succeeds and the clean-up redistributes nothing,
\* the returned (mu, eta, chi, phi) is a tuple that passed the round-trip
\* filter together with exactly the returned (delta, nu), and forward
\* kinematics of the six returned angles gives the target hkl; in the
\* xi loop the pair and the tuple come from the same attempt.
C1_RoundTrip ==
    pc = "return" /\ ~Redistributed =>
        LET position == ret.value
            tuple == <<frame.mu, frame.eta, frame.chi, frame.phi>>
        IN  /\ position.delta = frame.delta /\ position.nu = frame.nu
            /\ <<position.mu, position.eta, position.chi>>
                   = <<frame.mu, frame.eta, frame.chi>>
            /\ position.phi \in {frame.phi, frame.phi + 2 * PI}
            /\ frame.sample = Return(tuple)
            /\ tuple \in Range(frame.mu_eta_chi_phi_tuples)
            /\ tuple_okay(position.delta, position.nu, tuple)
            /\ tuple_okay(position.delta, position.nu,
                          <<position.mu, position.eta, position.chi,
                            position.phi>>)
            /\ youAnglesToHkl(position) = args.hkl

\* a success of the xi loop on a later attempt than the first
C1_Witness ==
    /\ pc = "return"
    /\ ~Redistributed
    /\ Len(frame.xi_tried) > 1
    /\ frame.delta # 0

\* C2: every sample tuple that survives _filter_valid_sample_solutions
\* reproduces the reference constraint (for a_eq_b virtual alpha equals
\* virtual beta, for psi, alpha or beta the virtual angle of that name equals
\* the constrained value), and none that fails the hkl round trip is kept.
C2_SurvivorsKeepReference ==
    \A i \in 1..Len(frame.mu_eta_chi_phi_tuples) :
        LET t == frame.mu_eta_chi_phi_tuples[i]
            pos == YouPosition(t[1], frame.delta, frame.nu, t[2], t[3], t[4])
            virtual_angles == anglesToVirtualAngles(pos)
        IN  /\ youAnglesToHkl(pos) = args.hkl
            /\ "a_eq_b" \in DOMAIN constraints.reference
                   => alpha_ne_beta(virtual_angles)
            /\ \A name \in DOMAIN constraints.reference \ {"a_eq_b"} :
                   virtual_ne(name, constraints.reference[name], virtual_angles)

\* several survivors under a reference constraint with a value
C2_Witness ==
    /\ Len(frame.mu_eta_chi_phi_tuples) > 1
    /\ "psi" \in DOMAIN constraints.reference

\* C3: detector selection requires exactly one surviving (delta, nu) pair:
\* with more than one pair it fails as AmbiguousSolution, with none it fails
\* as NoSolution, and only with exactly one pair does it return that pair.
C3_ExactlyOnePair ==
    frame.chose_detector =>
        LET n == Len(frame.delta_nu_pairs)
        IN  /\ n > 1 => frame.detector =
                  Raise("Exception", "Multiple detector solutions were found")
            /\ n = 0 => frame.detector =
                  Raise("NoSolutionException", "No detector solutions were found")
            /\ n = 1 => frame.detector = Return(frame.delta_nu_pairs[1])
            /\ frame.detector.raised = None => n = 1

\* more than one pair came to the choice
C3_Witness ==
    /\ frame.chose_detector
    /\ Len(frame.delta_nu_pairs) > 1
    /\ pc = "raise"

\* C4: _generate_final_detector_angles never returns a (delta, nu) pair with
\* a component outside the hardware limits, whatever the initial delta and
\* nu, initial delta close to 90 degrees with nu unconstrained included.
C4_NeverOutsideLimits ==
    frame.detector.raised = None =>
        /\ WithinLimits(hardware, "delta", frame.detector.value[1])
        /\ WithinLimits(hardware, "nu", frame.detector.value[2])

\* C5: _choose_sample_angles returns a survivor whose sum of absolute angle
\* values is minimal over all survivors, the first such in enumeration order
\* where several share the minimal sum, and fails as NoSolution with no
\* survivor.
C5_ClosestToZero ==
    frame.sample.raised # "not called" =>
        LET tuples == frame.mu_eta_chi_phi_tuples
            n == Len(tuples)
            first == CHOOSE i \in 1..n :
                        /\ \A j \in 1..n : absolute_distance(tuples[i])
                                              <= absolute_distance(tuples[j])
                        /\ \A j \in 1..(i - 1) : absolute_distance(tuples[i])
                                                    < absolute_distance(tuples[j])
        IN  IF n = 0
            THEN frame.sample.raised = "NoSolutionException"
            ELSE frame.sample = Return(tuples[first])

\* two different survivors share the minimal sum
C5_Witness ==
    /\ frame.sample.raised = None
    /\ \E i, j \in 1..Len(frame.mu_eta_chi_phi_tuples) :
         /\ i < j
         /\ frame.mu_eta_chi_phi_tuples[i] = frame.sample.value
         /\ frame.mu_eta_chi_phi_tuples[j] # frame.sample.value
         /\ absolute_distance(frame.mu_eta_chi_phi_tuples[j])
                = absolute_distance(frame.sample.value)

\* the xi values of a solve with two sample constraints, in the order of
\* _generate_transformed_values
xi_enumeration ==
    generate_transformed_values(
        calc_angles_given_two_sample_and_reference(
            constraints.sample, args.solution, args.branch, args.noise).value[1],
        FALSE)

InXiLoop == frame.xi_tried # <<>> \/ frame.xi_values # <<>>

\* C6: with two sample constraints the xi values are tried in enumeration
\* order; a xi for which the detector stage or the sample stage has no
\* solution is skipped and the next is tried; the solve succeeds with the
\* first xi that has a detector pair and a sample tuple; the failure for
\* want of a solution comes only when every xi has been tried.
C6_XiRetry ==
    /\ [](InXiLoop => frame.xi_tried \o frame.xi_values = xi_enumeration)
    /\ [](pc = "raise" /\ InXiLoop
             /\ (ret.raised = "NoSolutionException"
                    \/ ret.message = "No solutions were found")
            => frame.xi_values = <<>> /\ frame.xi_tried = xi_enumeration)
    /\ [][pc = "xi" /\ pc' = "xi" =>
            /\ frame'.xi_tried = Append(frame.xi_tried, Head(frame.xi_values))
            /\ frame'.detector.raised \in {None, "NoSolutionException"}
            /\ frame'.detector.raised = None
                   => frame'.sample.raised = "NoSolutionException"]_vars
    /\ [][pc = "xi" /\ pc' = "create_position" =>
            /\ frame'.xi_tried = Append(frame.xi_tried, Head(frame.xi_values))
            /\ frame'.detector.raised = None
            /\ frame'.sample.raised = None
            /\ frame'.detector.value = <<frame'.delta, frame'.nu>>
            /\ frame'.sample.value
                   = <<frame'.mu, frame'.eta, frame'.chi, frame'.phi>>]_vars

\* every xi has been tried and none had a solution
C6_Witness ==
    /\ pc = "raise"
    /\ ret.message = "No solutions were found"
    /\ Len(frame.xi_tried) > 1

Unsupported3 ==
    Raise("DiffcalcException", "No code yet to handle 3 sample constraints!")

Unsupported2 ==
    Raise("DiffcalcException",
          "No code yet to handle this combination of 2 sample constraints")

SolvedPairs == { {"chi", "phi"}, {"mu", "eta"}, {"chi", "mu"} }

\* C7 as the specification has it: three sample constraints always fail as
\* Unsupported; of the pairs of sample constraints {chi,phi}, {mu,eta} and
\* {chi,mu} are solved and the other three fail as Unsupported; a failing
\* solve returns no position.
C7_AsStated ==
    pc \in {"raise", "return"} =>
        LET given == DOMAIN constraints.sample
        IN  /\ Cardinality(given) = 3 => pc = "raise" /\ ret = Unsupported3
            /\ Cardinality(given) = 2 /\ given \notin SolvedPairs
                   => pc = "raise" /\ ret = Unsupported2
            /\ Cardinality(given) = 2 /\ given \in SolvedPairs => InXiLoop
            /\ pc = "raise" => ret.raised # None

\* C7, amended: a solve with three sample constraints returns no position,
\* and fails as Unsupported once it comes to the sample constraints; of the
\* pairs, {chi,phi} and {mu,eta} go to their derivation, {chi,mu} only with
\* mu close to 0 or chi close to 90 degrees and fails otherwise, and the
\* other three fail as Unsupported; a failing solve returns no position.
C7_Branches ==
    /\ [](Cardinality(DOMAIN constraints.sample) = 3 => pc # "return")
    /\ [](pc = "raise" => ret.raised # None)
    /\ [][pc = "sample" =>
            LET given == DOMAIN constraints.sample
                chi_mu_handled == \/ is_small(constraints.sample["mu"])
                                  \/ is_small(constraints.sample["chi"] - PI \div 2)
            IN  /\ Cardinality(given) = 3 => pc' = "raise" /\ ret' = Unsupported3
                /\ Cardinality(given) = 2 /\ given \notin SolvedPairs
                       => pc' = "raise" /\ ret' = Unsupported2
                /\ given \in SolvedPairs \ {{"chi", "mu"}} => pc' = "xi"
                /\ given = {"chi", "mu"} =>
                       IF chi_mu_handled THEN pc' = "xi"
                       ELSE /\ pc' = "raise"
                            /\ ret'.raised = "Exception"]_vars

\* three sample constraints, and the solve failed before it came to them
C7_Witness ==
    /\ pc = "raise"
    /\ Cardinality(DOMAIN constraints.sample) = 3
    /\ ret # Unsupported3
\* C12: the phi of every position a successful solve returns lies in
\* (-pi, pi], to within the tolerance with which the code compares angles:
\* after the clean-up the one wrap step of lines 378-379 is enough.
C12_PhiWrapped ==
    Solved => (ret.value.phi > -PI /\ ret.value.phi <= PI + SMALL)

C19_SampleWithinLimits ==
    Solved => \A name \in {"mu", "eta", "chi", "phi"} :
                  WithinLimits(hardware, name, ret.value[name])

\* C20: with chi and mu constrained the derivation returns angles only for
\* chi close to 90 degrees and mu close to 0, together; for every other pair
\* of values it raises 'modes only currently work with chi=90 and mu=0'.
C20_ChiMuMode ==
    [][(pc = "sample" /\ DOMAIN constraints.sample = {"chi", "mu"}) =>
          IF /\ is_small(constraints.sample["mu"])
             /\ is_small(constraints.sample["chi"] - PI \div 2)
          THEN pc' = "xi"
          ELSE /\ pc' = "raise"
               /\ ret' = Raise("Exception",
                               "modes only currently work with chi=90 and mu=0")]_vars

\* C21: the reference stage raises DiffcalcException where sin(tau) is 0 and
\* where the sine it derives (sin(beta) = l - sin(alpha) under alpha,
\* sin(alpha) = l - sin(beta) under beta, with l = 2 sin(theta) cos(tau))
\* is beyond 1 in magnitude; in every other case it returns its angles, and
\* the solve goes on to the detector stage.
C21_ReferenceFailures ==
    [][(pc = "reference" /\ Truthy(constraints.reference)) =>
          LET name == NameOf(constraints.reference)
              value == constraints.reference[name]
              \* 8 times the derived sine
              derived == IF name \in {"alpha", "beta"}
                         THEN ZSub(args.hkl[3], Sin8(value))
                         ELSE ZZero
              unreachable ==
                  \/ sin_tau_is_0(args.hkl)
                  \/ ZSgn(ZSub(ZAbs(derived), <<8, 0>>)) > 0
          IN  IF unreachable
              THEN pc' = "raise" /\ ret'.raised = "DiffcalcException"
              ELSE pc' = "detector"]_vars

\* C23 as stated: with one sample angle fixed, whichever it is, the stage
\* fails where eta is at +-90 degrees, and where chi is at 0 or 180 degrees
\* it does not fail and goes on with eta = 0.  (The positions with both are
\* left out.)
C23_AsStated ==
    [][(/\ pc = "sample"
        /\ Cardinality(DOMAIN constraints.sample) = 1
        /\ Truthy(constraints.detector) \/ Truthy(constraints.naz)) =>
          LET eta_90 == Cos2(args.solution.eta) = ZZero
              chi_0 == Sin2(args.solution.chi) = ZZero
              stage_failed == pc' = "raise" /\ frame'.sample.raised = "not called"
              tuples == frame'.mu_eta_chi_phi_tuples
          IN  /\ (eta_90 /\ ~chi_0) => stage_failed /\ ret'.raised = "ValueError"
              /\ (chi_0 /\ ~eta_90) =>
                     /\ ~stage_failed
                     /\ \A i \in 1..Len(tuples) : tuples[i][2] \in {0, PI}]_vars

\* C23: with mu fixed the stage never fails, and where chi is at 0 or 180
\* degrees it goes on with eta = 0; with chi fixed at 0 or 180 degrees it
\* fails; with phi fixed it fails where eta is at +-90 degrees, and with eta
\* fixed at +-90 degrees; with phi or eta fixed and chi at 0 or 180
\* degrees, and with chi fixed and eta at +-90 degrees, it returns the angles
\* of its closed forms.
C23_SampleDegeneracies ==
    [][(/\ pc = "sample"
        /\ Cardinality(DOMAIN constraints.sample) = 1
        /\ Truthy(constraints.detector) \/ Truthy(constraints.naz)) =>
          LET name == NameOf(constraints.sample)
              eta_90 == Cos2(args.solution.eta) = ZZero
              chi_0 == Sin2(args.solution.chi) = ZZero
              stage_failed == pc' = "raise" /\ frame'.sample.raised = "not called"
              fails == stage_failed /\ ret'.raised = "ValueError"
              tuples == frame'.mu_eta_chi_phi_tuples
          IN  CASE name = "mu" ->
                     /\ ~stage_failed
                     /\ chi_0 => \A i \in 1..Len(tuples) : tuples[i][2] \in {0, PI}
                [] name = "chi" -> IF chi_0 THEN fails ELSE ~stage_failed
                [] name \in {"phi", "eta"} ->
                     IF eta_90 THEN fails ELSE ~stage_failed]_vars

\* C23 witness: with phi fixed and eta at 90 degrees the stage has failed
C23_Witness ==
    /\ pc = "raise"
    /\ frame.sample.raised = "not called"
    /\ ret.raised = "ValueError"
    /\ DOMAIN constraints.sample = {"phi"}
    /\ Cos2(args.solution.eta) = ZZero
    /\ Sin2(args.solution.chi) # ZZero

\* ------------------------------------- the clean-up of pairs close to 90

\* The clean-up of lines 703-721 on its own.  The offsets of the initial
\* delta from 90 degrees are within SMALL (2), between SMALL and 0.01 rad (8
\* and -10) and beyond 0.01 rad (14).  The candidates are those of
\* _generate_possible_solutions; of them any MaxKept or fewer survive the
\* filter, which is not evaluated here.  A delta within SMALL of 90 degrees
\* with nu free returns at lines 689-693 and does not come here.
MaxKept == 3

InitCleanUp ==
    /\ pc = "call"
    /\ constraints = NoConstraints
    /\ hardware = Limits(<<>>, <<>>)
    /\ args \in [initial_delta : { Grid(2) + 2, Grid(2) + 8, Grid(2) - 10,
                                   Grid(2) + 14, Grid(1) },
                 initial_nu : { 0, Grid(1), Grid(2) + 2 },
                 det_constraint_name : { "delta", "nu", "qaz" }]
    /\ ~(ne(args.initial_delta, PI \div 2) /\ args.det_constraint_name # "nu")
    /\ LET survivors(possible) ==
               { [k \in 1..Cardinality(I) |->
                     possible[CHOOSE i \in I : Cardinality({ j \in I : j < i }) = k - 1]] :
                 I \in { J \in SUBSET (1..Len(possible)) : Cardinality(J) <= MaxKept } }
       IN  frame \in [delta_nu_pairs :
                         survivors(generate_possible_solutions(
                             hardware, <<args.initial_delta, args.initial_nu>>,
                             <<"delta", "nu">>, {args.det_constraint_name})),
                     cleaned : { <<>> }]
    /\ ret = None

\* lines 703-722: the clean-up and the choice
CleanUp ==
    /\ pc = "call"
    /\ LET choose(cleaned) ==
               /\ frame' = [frame EXCEPT !.cleaned = cleaned]
               /\ ret' = choose_detector_angles(cleaned)
               /\ pc' = IF Len(cleaned) = 1 THEN "return" ELSE "raise"
       IN  choose(clean_up_close_to_90(frame.delta_nu_pairs))
    /\ UNCHANGED <<args, constraints, hardware>>

NextCleanUp == CleanUp

SpecCleanUp == InitCleanUp /\ [][NextCleanUp]_vars

FxScale == 20000

\* the nearest number to x / FxScale
FxRound(x) == (x + FxScale \div 2) \div FxScale

\* math.cos of an angle of the examples, in tenths of a degree
cos(a) ==
    LET table(b) ==
        CASE b = 0 -> 20000
          [] b = 9 -> 19998
          [] b = 10 -> 19997
          [] b = 19 -> 19989
          [] b = 29 -> 19974
          [] b = 100 -> 19696
          [] b = 300 -> 17321
          [] b = 309 -> 17161
          [] b = 600 -> 10000
          [] b = 609 -> 9727
    IN  table(Abs(a))

\* math.sin of an angle of the examples, in tenths of a degree
sin(a) ==
    LET table(b) ==
        CASE b = 0 -> 0
          [] b = 9 -> 314
          [] b = 10 -> 349
          [] b = 19 -> 663
          [] b = 29 -> 1012
          [] b = 100 -> 3473
          [] b = 300 -> 10000
          [] b = 309 -> 10271
          [] b = 600 -> 17321
          [] b = 609 -> 17475
    IN  IF a < 0 THEN -table(-a) ELSE table(a)

\* 3x3 matrices are triples of rows, vectors are triples
Identity3 == <<<<FxScale, 0, 0>>, <<0, FxScale, 0>>, <<0, 0, FxScale>>>>

MatMul(A, B) ==
    [i \in 1..3 |-> [j \in 1..3 |->
        FxRound(A[i][1] * B[1][j] + A[i][2] * B[2][j] + A[i][3] * B[3][j])]]

MatVec(A, v) ==
    [i \in 1..3 |-> FxRound(A[i][1] * v[1] + A[i][2] * v[2] + A[i][3] * v[3])]

\* the cofactor of the element in row i, column j
Cofactor(M, i, j) ==
    LET next(k) == (k % 3) + 1
    IN  FxRound(M[next(i)][next(j)] * M[next(next(i))][next(next(j))]
                - M[next(i)][next(next(j))] * M[next(next(i))][next(j)])

\* matrix.I: the adjugate over the determinant
Inverse3(M) ==
    LET over(d) == [i \in 1..3 |-> [j \in 1..3 |->
                       (Cofactor(M, j, i) * FxScale + d \div 2) \div d]]
    IN  over(FxRound(M[1][1] * Cofactor(M, 1, 1)
                     + M[1][2] * Cofactor(M, 1, 2)
                     + M[1][3] * Cofactor(M, 1, 3)))

\* the matrix of the rotation by th about the axis x, y or z
rotation_matrix(axis, th) ==
    CASE axis = "x" ->
           <<<<FxScale, 0, 0>>, <<0, cos(th), -sin(th)>>, <<0, sin(th), cos(th)>>>>
      [] axis = "y" ->
           <<<<cos(th), 0, sin(th)>>, <<0, FxScale, 0>>, <<-sin(th), 0, cos(th)>>>>
      [] axis = "z" ->
           <<<<cos(th), -sin(th), 0>>, <<sin(th), cos(th), 0>>, <<0, 0, FxScale>>>>

\* createYouMatrices(mu, delta, nu, eta, chi, phi)
createYouMatrices(mu, delta, nu, eta, chi, phi) ==
    [MU |-> rotation_matrix("x", mu), DELTA |-> rotation_matrix("z", -delta),
     NU |-> rotation_matrix("x", nu), ETA |-> rotation_matrix("z", -eta),
     CHI |-> rotation_matrix("y", chi), PHI |-> rotation_matrix("z", -phi)]

\* The mutant of the forward kinematics that takes NU * DELTA for
\* NU * DELTA - I.
youAnglesToHkl_of_detector_direction(pos, wavelength, UBmatrix) ==
    LET hkl_of(m) ==
            MatVec(MatMul(MatMul(MatMul(MatMul(Inverse3(UBmatrix),
                       Inverse3(m.PHI)), Inverse3(m.CHI)), Inverse3(m.ETA)),
                       Inverse3(m.MU)),
                   MatVec(MatMul(m.NU, m.DELTA),
                          <<0, FxScale \div wavelength, 0>>))
    IN  hkl_of(createYouMatrices(pos.mu, pos.delta, pos.nu, pos.eta,
                                 pos.chi, pos.phi))

\* youAnglesToHkl(pos, wavelength, UBmatrix) as the code computes it: the
\* matrix products from left to right, then the product with q_lab.
youAnglesToHkl_numeric(pos, wavelength, UBmatrix) ==
    LET less_I(M) == [i \in 1..3 |-> [j \in 1..3 |-> M[i][j] - Identity3[i][j]]]
        hkl_of(m) ==
            MatVec(MatMul(MatMul(MatMul(MatMul(Inverse3(UBmatrix),
                       Inverse3(m.PHI)), Inverse3(m.CHI)), Inverse3(m.ETA)),
                       Inverse3(m.MU)),
                   MatVec(less_I(MatMul(m.NU, m.DELTA)),
                          <<0, FxScale \div wavelength, 0>>))
    IN  hkl_of(createYouMatrices(pos.mu, pos.delta, pos.nu, pos.eta,
                                 pos.chi, pos.phi))

\* posFromI16sEuler(phi, chi, eta, mu, delta, gamma)
posFromI16sEuler(phi, chi, eta, mu, delta, gamma) ==
    YouPosition(mu, delta, gamma, eta, chi, phi)

\* UB1 of the examples, in units of 2*pi
UB1 == <<<<19994, -349, -349>>, <<349, 19997, -6>>, <<349, 0, 19997>>>>

\* WL1 of the examples
WL1 == 1

\* the examples: a position and the hkl expected of it
I16Examples ==
    { [pos |-> posFromI16sEuler(10, 10, 300, 0, 600, 0),
       hkl |-> <<20000, 0, 0>>],
      [pos |-> posFromI16sEuler(10, 10, 300, 0, 600, 100),
       hkl |-> <<20076, -132, 1736>>],
      [pos |-> posFromI16sEuler(10, 10, 300, 100, 600, 0),
       hkl |-> <<19924, 132, 1736>>],
      [pos |-> posFromI16sEuler(19, 29, 309, 9, 609, 29),
       hkl |-> <<20235, 474, 1325>>] }

\* the positions of the examples and positions between them
InitFwd ==
    /\ pc = "call"
    /\ \E phi \in {10, 19, 29}, chi \in {10, 29}, eta \in {300, 309},
          mu \in {0, 9, 100}, delta \in {600, 609}, gamma \in {0, 29, 100},
          UB \in {UB1, Identity3} :
            args = [pos |-> posFromI16sEuler(phi, chi, eta, mu, delta, gamma),
                    wavelength |-> WL1, UB |-> UB]
    /\ ret = None
    /\ constraints = NoConstraints
    /\ hardware = NoHardware
    /\ frame = None

CallAnglesToHkl ==
    /\ pc = "call"
    /\ ret' = youAnglesToHkl_numeric(args.pos, args.wavelength, args.UB)
    /\ pc' = "return"
    /\ UNCHANGED <<args, constraints, hardware, frame>>

NextFwd == CallAnglesToHkl

SpecFwd == InitFwd /\ [][NextFwd]_vars

\* arrayeq_: two vectors agree to 2 parts in 10000
FxClose(u, v) == \A i \in 1..3 : 5000 * Abs(u[i] - v[i]) <= FxScale

\* C14: youAnglesToHkl returns UB^-1 PHI^-1 CHI^-1 ETA^-1 MU^-1 (NU DELTA - I)
\* (0, 2 pi / wavelength, 0)^T, a function of its arguments alone, and with
\* UB1 and wavelength 1 it takes each position of the I16 examples to the hkl
\* listed with it: (phi, chi, eta, mu, delta, nu) = (1, 1, 30, 0, 60, 0)
\* degrees to (1, 0, 0).  The formula is taken factor by factor on the
\* vector, the inverse of a rotation being the rotation by the opposite angle.
C14_ForwardKinematics ==
    LET less_y(v, wavelength) == <<v[1], v[2] - FxScale \div wavelength, v[3]>>
        FormulaOfHkl(pos, wavelength, UBmatrix) ==
            MatVec(Inverse3(UBmatrix),
              MatVec(rotation_matrix("z", pos.phi),
                MatVec(rotation_matrix("y", -pos.chi),
                  MatVec(rotation_matrix("z", pos.eta),
                    MatVec(rotation_matrix("x", -pos.mu),
                      less_y(MatVec(rotation_matrix("x", pos.nu),
                               MatVec(rotation_matrix("z", -pos.delta),
                                      <<0, FxScale \div wavelength, 0>>)),
                             wavelength))))))
    IN  pc = "return" =>
            /\ FxClose(ret, FormulaOfHkl(args.pos, args.wavelength, args.UB))
            /\ \A example \in I16Examples :
                   (args.pos = example.pos /\ args.UB = UB1 /\ args.wavelength = WL1)
                       => FxClose(ret, example.hkl)

\* C14 witness: the example with nu at 10 degrees has been computed
C14_Witness ==
    /\ pc = "return"
    /\ args.UB = UB1
    /\ args.pos = posFromI16sEuler(10, 10, 300, 0, 600, 100)
    /\ ret[3] > 1700

\* ------------------------------------------------------- mapper commands

\* Python values given to the commands: an int or a float is held by twice
\* its value, a string by its text.  Py("int", n) is the int n,
\* Py("float", t) the float t / 2, Py("str", s) the string s, and
\* Py("NoneType", 0) is None.
Py(type, v) ==
    CASE type = "int" -> [type |-> "int", twice |-> 2 * v, text |-> ""]
      [] type = "float" -> [type |-> "float", twice |-> v, text |-> ""]
      [] type = "str" -> [type |-> "str", twice |-> 0, text |-> v]
      [] type = "NoneType" -> [type |-> "NoneType", twice |-> 0, text |-> ""]

\* float(val) of a number
float(val) == [val EXCEPT !.type = "float"]

\* str(o) of a string (a scannable, with getName, is held by its name)
getNameFromScannableOrString(o) == o.text

\* The sector selector is a collaborator: an operation on it is noted in its
\* list of calls, and sets what its name says.
selector_call(ss, method, value) ==
    LET noted == [ss EXCEPT !.calls = Append(@, method)]
    IN  CASE method = "setSector" -> [noted EXCEPT !.sector = value]
          [] method = "setAutoSectors" -> [noted EXCEPT !.autoSectors = value]
          [] method = "addTransorm" -> [noted EXCEPT !.transforms = @ \cup {value}]
          [] method = "removeTransorm" -> [noted EXCEPT !.transforms = @ \ {value}]
          [] method = "addAutoTransorm" ->
               [noted EXCEPT !.autoTransforms = @ \cup {value}]
          [] method = "removeAutoTransform" ->
               [noted EXCEPT !.autoTransforms = @ \ {value}]

\* hardware.setLowerLimit(name, value) and hardware.setUpperLimit(name, value)
set_limit(hw, setMethod, name, value) ==
    LET with(dict) ==
            [n \in DOMAIN dict \cup {name} |-> IF n = name THEN value ELSE dict[n]]
    IN  IF setMethod = "setLowerLimit" THEN [hw EXCEPT !.lower = with(@)]
        ELSE [hw EXCEPT !.upper = with(@)]

\* A command leaves <<how it ended, the selector, the hardware>>.

\* The mutant of _transform that ignores a string it does not know.
transform_ignoring_unknown(ss, hw, transformName, arguments) ==
    IF Len(arguments) = 0 THEN <<Return(None), ss, hw>>
    ELSE IF Len(arguments) # 1 THEN <<Raise("TypeError", ""), ss, hw>>
    ELSE IF arguments[1].type # "str" THEN <<Raise("TypeError", ""), ss, hw>>
    ELSE IF arguments[1].text = "on"
         THEN <<Return(None), selector_call(ss, "addTransorm", transformName), hw>>
    ELSE IF arguments[1].text = "off"
         THEN <<Return(None), selector_call(ss, "removeTransorm", transformName), hw>>
    ELSE IF arguments[1].text = "auto"
         THEN <<Return(None), selector_call(ss, "addAutoTransorm", transformName), hw>>
    ELSE IF arguments[1].text = "manual"
         THEN <<Return(None), selector_call(ss, "removeAutoTransform", transformName), hw>>
    ELSE <<Return(None), ss, hw>>

\* _transform(commandName, transformName, args)
transform(ss, hw, transformName, arguments) ==
    IF Len(arguments) = 0 THEN <<Return(None), ss, hw>>
    ELSE IF Len(arguments) # 1 THEN <<Raise("TypeError", ""), ss, hw>>
    ELSE IF arguments[1].type # "str" THEN <<Raise("TypeError", ""), ss, hw>>
    ELSE IF arguments[1].text = "on"
         THEN <<Return(None), selector_call(ss, "addTransorm", transformName), hw>>
    ELSE IF arguments[1].text = "off"
         THEN <<Return(None), selector_call(ss, "removeTransorm", transformName), hw>>
    ELSE IF arguments[1].text = "auto"
         THEN <<Return(None), selector_call(ss, "addAutoTransorm", transformName), hw>>
    ELSE IF arguments[1].text = "manual"
         THEN <<Return(None), selector_call(ss, "removeAutoTransform", transformName), hw>>
    ELSE <<Raise("TypeError", ""), ss, hw>>

\* sector(sector=None); 0 <= sector <= 7 as Python 2 compares: numbers by
\* value, and a string above every number
sector(ss, hw, value) ==
    LET between_0_and_7 ==
            /\ value.type \in {"int", "float"}
            /\ 0 <= value.twice /\ value.twice <= 14
    IN  IF value = Py("NoneType", 0) THEN <<Return(None), ss, hw>>
        ELSE IF value.type # "int" /\ ~between_0_and_7
             THEN <<Raise("TypeError", ""), ss, hw>>
        ELSE <<Return(None), selector_call(ss, "setSector", value), hw>>

\* autosector(*args)
autosector(ss, hw, arguments) ==
    IF Len(arguments) = 0 THEN <<Return(None), ss, hw>>
    ELSE IF Len(arguments) = 1 /\ arguments[1] = Py("NoneType", 0)
         THEN <<Return(None), selector_call(ss, "setAutoSectors", <<>>), hw>>
    ELSE IF \E i \in 1..Len(arguments) : arguments[i].type # "int"
         THEN <<Raise("TypeError", ""), ss, hw>>
    ELSE <<Return(None), selector_call(ss, "setAutoSectors", arguments), hw>>

\* _setMinOrMax(name, val, setMethod); setMethod is "setLowerLimit" or
\* "setUpperLimit".  MapperCommands has no reprSectorLimitsAndCuts: line 135
\* raises AttributeError.
setMinOrMax(ss, hw, name, val, setMethod) ==
    IF name = Py("NoneType", 0) THEN <<Return(None), ss, hw>>
    ELSE IF val = Py("NoneType", 0)
         THEN <<Raise("AttributeError", "reprSectorLimitsAndCuts"), ss, hw>>
    ELSE <<Return(None), ss,
           set_limit(hw, setMethod, getNameFromScannableOrString(name), float(val))>>

\* argument lists of at most MaxArgs values
MaxArgs == 2
ArgLists(S) == UNION { [1..n -> S] : n \in 0..MaxArgs }

\* the commands tried, with their arguments
MapperCalls ==
    LET SectorValues ==
            { Py("int", 0), Py("int", 7), Py("int", 8), Py("int", -1),
              Py("float", 7), Py("float", 17), Py("str", "3"),
              Py("NoneType", 0) }
        TransformValues ==
            { Py("str", "on"), Py("str", "off"), Py("str", "auto"),
              Py("str", "manual"), Py("str", "a"), Py("str", "ON"),
              Py("int", 1), Py("NoneType", 0) }
        LimitValues ==
            { Py("NoneType", 0), Py("int", 0), Py("int", -90), Py("float", 181) }
        AxisNames == { Py("NoneType", 0), Py("str", "delta"), Py("str", "phi") }
    IN  { [command |-> c, arguments |-> a] :
            c \in {"transforma", "transformb", "transformc"},
            a \in ArgLists(TransformValues) }
        \cup { [command |-> "sector", arguments |-> <<v>>] : v \in SectorValues }
        \cup { [command |-> "autosector", arguments |-> a] :
                 a \in ArgLists(SectorValues) }
        \cup { [command |-> c, arguments |-> <<n, v>>] :
                 c \in {"setmin", "setmax"}, n \in AxisNames, v \in LimitValues }

InitMapper ==
    /\ pc = "call"
    /\ args \in MapperCalls
    /\ \E s \in { <<>>, <<Py("int", 1)>> }, t \in { {}, {"a", "b", "c"} },
          u \in { {}, {"b"} } :
            frame = [selector |-> [sector |-> Py("int", 0), autoSectors |-> s,
                                   transforms |-> t, autoTransforms |-> u,
                                   calls |-> <<>>]]
    /\ \E l \in { <<>>, [delta |-> Py("float", 0), phi |-> Py("float", -360)] } :
            hardware = [lower |-> l, upper |-> <<>>]
    /\ constraints = NoConstraints
    /\ ret = None

\* the command ends, leaving what it left
Leave(left) ==
    /\ ret' = left[1]
    /\ pc' = IF left[1].raised = None THEN "return" ELSE "raise"
    /\ frame' = [selector |-> left[2]]
    /\ hardware' = left[3]
    /\ UNCHANGED <<args, constraints>>

Transforma ==
    /\ pc = "call" /\ args.command = "transforma"
    /\ Leave(transform(frame.selector, hardware, "a", args.arguments))

Transformb ==
    /\ pc = "call" /\ args.command = "transformb"
    /\ Leave(transform(frame.selector, hardware, "b", args.arguments))

Transformc ==
    /\ pc = "call" /\ args.command = "transformc"
    /\ Leave(transform(frame.selector, hardware, "c", args.arguments))

Sector ==
    /\ pc = "call" /\ args.command = "sector"
    /\ Leave(sector(frame.selector, hardware, args.arguments[1]))

Autosector ==
    /\ pc = "call" /\ args.command = "autosector"
    /\ Leave(autosector(frame.selector, hardware, args.arguments))

Setmin ==
    /\ pc = "call" /\ args.command = "setmin"
    /\ Leave(setMinOrMax(frame.selector, hardware, args.arguments[1],
                         args.arguments[2], "setLowerLimit"))

Setmax ==
    /\ pc = "call" /\ args.command = "setmax"
    /\ Leave(setMinOrMax(frame.selector, hardware, args.arguments[1],
                         args.arguments[2], "setUpperLimit"))

NextMapper ==
    \/ Transforma
    \/ Transformb
    \/ Transformc
    \/ Sector
    \/ Autosector
    \/ Setmin
    \/ Setmax

SpecMapper == InitMapper /\ [][NextMapper]_vars

\* C15: sector and autosector raise TypeError for an argument that is not an
\* int in 0..7 and then leave the selector as it was; only sector numbers
\* reach setSector and setAutoSectors.  (The None that asks for the display,
\* or for the empty list, names no sector.)
C15_SectorNumbers ==
    [][(pc = "call" /\ args.command \in {"sector", "autosector"}) =>
          LET SectorNumber(x) == x.type = "int" /\ 0 <= x.twice /\ x.twice <= 14
              SectorsGiven ==
                  IF args.arguments = <<Py("NoneType", 0)>> THEN {}
                  ELSE { args.arguments[i] : i \in 1..Len(args.arguments) }
          IN  /\ (\E x \in SectorsGiven : ~SectorNumber(x))
                     => /\ pc' = "raise" /\ ret'.raised = "TypeError"
                        /\ frame' = frame
              /\ frame'.selector.calls # <<>>
                     => \A x \in SectorsGiven : SectorNumber(x)]_vars

\* C16: setmin and setmax with None for the value clear the limit of the
\* named axis, with a value they set it to float(val), and with no name they
\* change nothing.
C16_SetLimits ==
    [][(pc = "call" /\ args.command \in {"setmin", "setmax"}) =>
          LET name == args.arguments[1]
              val == args.arguments[2]
              axis == getNameFromScannableOrString(name)
              LimitOf(hw) == IF args.command = "setmin" THEN hw.lower ELSE hw.upper
              OtherLimitOf(hw) == IF args.command = "setmin" THEN hw.upper ELSE hw.lower
              others_kept ==
                  \A n \in DOMAIN LimitOf(hardware) \ {axis} :
                      /\ n \in DOMAIN LimitOf(hardware')
                      /\ LimitOf(hardware')[n] = LimitOf(hardware)[n]
          IN  /\ pc' = "return"
              /\ frame' = frame
              /\ OtherLimitOf(hardware') = OtherLimitOf(hardware)
              /\ IF name = Py("NoneType", 0) THEN hardware' = hardware
                 ELSE IF val = Py("NoneType", 0)
                      THEN axis \notin DOMAIN LimitOf(hardware') /\ others_kept
                      ELSE /\ DOMAIN LimitOf(hardware')
                                  = DOMAIN LimitOf(hardware) \cup {axis}
                           /\ LimitOf(hardware')[axis] = float(val)
                           /\ others_kept]_vars

\* C17: transforma, transformb and transformc act on their own transform
\* alone, with one selector operation: 'on' adds it, 'off' removes it,
\* 'auto' adds it to the auto transforms, 'manual' removes it from them; no
\* argument changes nothing; more than one argument, an argument that is no
\* string, or another string raises TypeError and no operation is invoked.
C17_Transform ==
    [][(pc = "call" /\ args.command \in {"transforma", "transformb", "transformc"}) =>
          LET a == args.arguments
              ss == frame.selector
              after == frame'.selector
              own == CASE args.command = "transforma" -> "a"
                       [] args.command = "transformb" -> "b"
                       [] args.command = "transformc" -> "c"
              word == IF Len(a) = 1 /\ a[1].type = "str" THEN a[1].text ELSE ""
              one(call, transforms, autoTransforms) ==
                  /\ pc' = "return"
                  /\ after = [ss EXCEPT !.calls = <<call>>,
                                        !.transforms = transforms,
                                        !.autoTransforms = autoTransforms]
          IN  /\ hardware' = hardware
              /\ CASE Len(a) = 0 -> pc' = "return" /\ frame' = frame
                   [] word = "on" ->
                        one("addTransorm", ss.transforms \cup {own},
                            ss.autoTransforms)
                   [] word = "off" ->
                        one("removeTransorm", ss.transforms \ {own},
                            ss.autoTransforms)
                   [] word = "auto" ->
                        one("addAutoTransorm", ss.transforms,
                            ss.autoTransforms \cup {own})
                   [] word = "manual" ->
                        one("removeAutoTransform", ss.transforms,
                            ss.autoTransforms \ {own})
                   [] OTHER -> /\ pc' = "raise" /\ ret'.raised = "TypeError"
                               /\ frame' = frame]_vars

\* C17 witness: transformb auto has added b, and b alone, to the auto
\* transforms
C17_Witness ==
    /\ pc = "return"
    /\ args = [command |-> "transformb", arguments |-> <<Py("str", "auto")>>]
    /\ frame.selector.calls = <<"addAutoTransorm">>
    /\ frame.selector.autoTransforms = {"b"}
    /\ frame.selector.transforms = {}

====
